---- MODULE Spec2Model ----
(***************************************************************************)
(* EcoSpark: the interpretation of provider text by the views of           *)
(* core/views.py (quiz, decision, reuse_marketplace, value_estimator) and  *)
(* the provider client core/utils/ai.py (get_ai_explanation).              *)
(*                                                                         *)
(* A Python str is a sequence of one-character strings.  Characters        *)
(* outside ASCII are named by their code point ("U+20B9").  A Python float *)
(* that the views read from text is an exact decimal [m, e] = m / 10^e.    *)
(***************************************************************************)
EXTENDS Integers, Sequences, FiniteSets, TLC

VARIABLES
    raw,            \* the text get_ai_explanation returned to the view
    view,           \* which view handled the request ("none" before any)
    status,         \* "pending" | "rendered" | "error" (unhandled exception)
    questions,      \* quiz: the context's question list
    result,         \* decision / value_estimator: the context's result
    recommendation, \* reuse_marketplace
    reasoning,      \* reuse_marketplace
    age_years,      \* value_estimator: the age read from the request
    chunks,         \* how many pieces of text the provider has produced
    env,            \* get_ai_explanation: the environment variables read
    pc,             \* get_ai_explanation: position in the function
    available,      \* get_ai_explanation: what list_models() gave
    ordered_to_try, \* get_ai_explanation: the candidates in trial order
    tried,          \* get_ai_explanation: iterations of the loop of line 77 begun
    attempts,       \* get_ai_explanation: the generate_content calls made
    calls,          \* get_ai_explanation: number of provider calls made
    returned,       \* get_ai_explanation: the returned str, NoneStr before
    request,        \* centers_nearby_api: the GET parameters and the environment
    gpc,            \* centers_nearby_api: position in the function
    lat,            \* centers_nearby_api: centre latitude, NoFloat for None
    lng,            \* centers_nearby_api: centre longitude, NoFloat for None
    sent,           \* centers_nearby_api: the provider requests made, with their answers
    results,        \* centers_nearby_api: the results list
    response,       \* centers_nearby_api: the JsonResponse returned
    completions,    \* database: the ChallengeCompletion rows
    credit_rows,    \* database: the UserCredit rows
    session,        \* the visitor's session: its 'challenges_completed' entry
    logged_in,      \* the visitor's session: a user is logged in
    handlers,       \* the requests being handled, with their local variables
    started         \* number of requests received

textVars == <<raw, view, status, questions, result, recommendation, reasoning, age_years, chunks>>
aiVars == <<env, pc, available, ordered_to_try, tried, attempts, calls, returned>>
geoVars == <<request, gpc, lat, lng, sent, results, response>>
vars == <<raw, view, status, questions, result, recommendation, reasoning, age_years,
          chunks, env, pc, available, ordered_to_try, tried, attempts, calls, returned,
          request, gpc, lat, lng, sent, results, response,
          completions, credit_rows, session, logged_in, handlers, started>>
dbVars == <<completions, credit_rows, session, logged_in, handlers, started>>

\* Python's None, where a one-character string, a str or a dict may stand
NONE == "<None>"
NoneStr == <<NONE>>
NoResult == [none |-> TRUE]

(***************************************************************************)
(* Python str operations                                                   *)
(***************************************************************************)
Chars(s) == [i \in 1..Len(s) |-> SubSeq(s, i, i)]

NL == "\n"
RUPEE == "U+20B9"        \* the rupee sign
MOJI_A == "U+00E2"       \* the three characters views.py holds where the
MOJI_Q == "U+201A"       \* rupee sign was meant (a mis-decoded rupee sign)
MOJI_1 == "U+00B9"

LowerLetters == Chars("abcdefghijklmnopqrstuvwxyz")
UpperLetters == Chars("ABCDEFGHIJKLMNOPQRSTUVWXYZ")
Digits == {"0", "1", "2", "3", "4", "5", "6", "7", "8", "9"}
Whitespace == {" ", NL, "\t", "\r"}

LowerToUpper ==
    [c \in {LowerLetters[i] : i \in 1..26} |->
        UpperLetters[CHOOSE i \in 1..26 : LowerLetters[i] = c]]
UpperToLower ==
    [c \in {UpperLetters[i] : i \in 1..26} |->
        LowerLetters[CHOOSE i \in 1..26 : UpperLetters[i] = c]]

UpperChar(c) == IF c \in DOMAIN LowerToUpper THEN LowerToUpper[c] ELSE c
LowerChar(c) == IF c \in DOMAIN UpperToLower THEN UpperToLower[c] ELSE c

Upper(s) == [i \in 1..Len(s) |-> UpperChar(s[i])]
Lower(s) == [i \in 1..Len(s) |-> LowerChar(s[i])]

\* s[n:] and s[:n] for n >= 0 (0-based slice bounds, as in Python)
From(s, n) == IF n >= Len(s) THEN <<>> ELSE SubSeq(s, n + 1, Len(s))
Upto(s, n) == IF n >= Len(s) THEN s ELSE SubSeq(s, 1, n)

StartsWith(s, p) == Len(p) <= Len(s) /\ SubSeq(s, 1, Len(p)) = p

Min(S) == CHOOSE i \in S : \A j \in S : i <= j
Max(S) == CHOOSE i \in S : \A j \in S : j <= i

\* p occurs in s at 1-based position i
OccursAt(s, p, i) == i >= 1 /\ i + Len(p) - 1 <= Len(s) /\ SubSeq(s, i, i + Len(p) - 1) = p
Occurrences(s, p) == {i \in 1..(Len(s) - Len(p) + 1) : SubSeq(s, i, i + Len(p) - 1) = p}
\* p in s
Contains(s, p) == Occurrences(s, p) # {}
\* s.find(p) as a 1-based position, 0 when p is not in s
Find(s, p) == LET occ == Occurrences(s, p) IN IF occ = {} THEN 0 ELSE Min(occ)

\* s.split(p, 1): one or two parts
Split1(s, p) ==
    LET at == Find(s, p)
    IN  IF at = 0 THEN <<s>>
        ELSE <<SubSeq(s, 1, at - 1), From(s, at + Len(p) - 1)>>

\* s.split(p)[0]
SplitFirst(s, p) == Split1(s, p)[1]

\* s.strip()
Strip(s) ==
    LET solid == {i \in 1..Len(s) : s[i] \notin Whitespace}
    IN  IF solid = {} THEN <<>> ELSE SubSeq(s, Min(solid), Max(solid))

\* s.splitlines(): the lines of s, line breaks removed, no empty last line
RECURSIVE SplitLines(_)
SplitLines(s) ==
    LET at == Find(s, <<NL>>)
    IN  IF s = <<>> THEN <<>>
        ELSE IF at = 0 THEN <<s>>
        ELSE <<SubSeq(s, 1, at - 1)>> \o SplitLines(From(s, at))

\* [f(x) for x in seq if keep(x)] for the two comprehensions of quiz
RECURSIVE SelectSeqStripped(_)
SelectSeqStripped(ls) ==
    IF ls = <<>> THEN <<>>
    ELSE LET l == Strip(Head(ls))
         IN  (IF l # <<>> THEN <<l>> ELSE <<>>) \o SelectSeqStripped(Tail(ls))

(***************************************************************************)
(* quiz (views.py 416-482): the GET branch                                 *)
(***************************************************************************)
QuestionMarkers ==
    {Chars("1."), Chars("2."), Chars("3."), Chars("4."), Chars("5."),
     Chars("Q1"), Chars("Q2"), Chars("Q3"), Chars("Q4"), Chars("Q5")}
OptionMarkers == {Chars("A:"), Chars("B:"), Chars("C:"), Chars("D:")}
AnswerMarkers == {Chars("ANSWER:"), Chars("CORRECT:"), Chars("ANS:")}
AnswerLetters == <<"A", "B", "C", "D">>

StartsWithAny(s, ps) == \E p \in ps : StartsWith(s, p)

EmptyQuestion == [q |-> <<>>, options |-> <<>>, answer |-> NONE]

\* line 438: ln.split('.', 1)[-1].strip() or ln
QuestionText(ln) ==
    LET parts == Split1(ln, <<".">>)
        t == Strip(parts[Len(parts)])
    IN  IF t # <<>> THEN t ELSE ln

\* line 439: the elif condition on the upper-cased line
IsOptionLine(lnu) ==
    \/ StartsWithAny(lnu, OptionMarkers)
    \/ (Len(lnu) > 2 /\ lnu[2] = ")" /\ lnu[1] \in {"A", "B", "C", "D"})

\* lines 440-442
ParseOption(ln) ==
    [label |-> Upper(ln)[1],
     text |-> IF ":" \in {Upto(ln, 3)[i] : i \in 1..Len(Upto(ln, 3))}
              THEN Strip(From(ln, 2)) ELSE Strip(From(ln, 3))]

\* the letter of A, B, C, D at the leftmost position in the line
AnswerOfByPosition(lnu, old) ==
    LET at == {i \in 1..Len(lnu) : lnu[i] \in {"A", "B", "C", "D"}}
    IN  IF at # {} THEN lnu[Min(at)] ELSE old

\* lines 444-447: the first of A, B, C, D that occurs anywhere in the line
AnswerOf(lnu, old) ==
    LET found == {i \in 1..4 : Contains(lnu, <<AnswerLetters[i]>>)}
    IN  IF found # {} THEN AnswerLetters[Min(found)] ELSE old

\* lines 431-447: the loop over the stripped non-empty lines
RECURSIVE QuizLoop(_, _, _)
QuizLoop(lines, qs, current) ==
    IF lines = <<>> \/ Len(qs) >= 5 THEN [questions |-> qs, current |-> current]
    ELSE LET ln == Head(lines)
             lnu == Upper(ln)
         IN  IF StartsWithAny(lnu, QuestionMarkers)
             THEN QuizLoop(Tail(lines),
                           IF current.q # <<>> THEN Append(qs, current) ELSE qs,
                           [q |-> QuestionText(ln), options |-> <<>>, answer |-> NONE])
             ELSE IF IsOptionLine(lnu)
             THEN QuizLoop(Tail(lines), qs,
                           [current EXCEPT !.options = Append(@, ParseOption(ln))])
             ELSE IF StartsWithAny(lnu, AnswerMarkers)
             THEN QuizLoop(Tail(lines), qs,
                           [current EXCEPT !.answer = AnswerOf(lnu, @)])
             ELSE QuizLoop(Tail(lines), qs, current)

QuestionAcceptedAnyOptions(q) ==
    /\ q.q # <<>>
    /\ q.answer \in {"A", "B", "C", "D"}

\* line 450: the filter
QuestionAccepted(q) ==
    /\ q.q # <<>>
    /\ Len(q.options) = 4
    /\ q.answer \in {"A", "B", "C", "D"}

RECURSIVE FilterAccepted(_)
FilterAccepted(qs) ==
    IF qs = <<>> THEN <<>>
    ELSE (IF QuestionAccepted(Head(qs)) THEN <<Head(qs)>> ELSE <<>>)
            \o FilterAccepted(Tail(qs))

DigitChar(n) == Chars("0123456789")[n + 1]

\* lines 453-462
TemplateQuestions ==
    [idx \in 1..5 |->
    [q |-> Chars("Which is best for e-waste? (Q") \o <<DigitChar(idx)>> \o <<")">>,
     options |-> <<[label |-> "A", text |-> Chars("Throw in regular trash")],
                   [label |-> "B", text |-> Chars("Burn to reduce volume")],
                   [label |-> "C", text |-> Chars("Recycle at certified center")],
                   [label |-> "D", text |-> Chars("Dump in river")]>>,
     answer |-> "C"]]
TemplateQuestion(idx) == TemplateQuestions[idx]

\* lines 451-462: while len(questions) < 5
RECURSIVE PadQuestions(_)
PadQuestions(qs) ==
    IF Len(qs) < 5 THEN PadQuestions(Append(qs, TemplateQuestion(Len(qs) + 1))) ELSE qs

\* lines 429-462, and the slice questions[:5] of line 482
QuizQuestions(text) ==
    LET lines == SelectSeqStripped(SplitLines(text))
        after == QuizLoop(lines, <<>>, EmptyQuestion)
        all == IF after.current.q # <<>> /\ Len(after.questions) < 5
               THEN Append(after.questions, after.current)
               ELSE after.questions
    IN  Upto(PadQuestions(FilterAccepted(all)), 5)

(***************************************************************************)
(* decision (views.py 485-520) and reuse_marketplace (views.py 524-569)    *)
(***************************************************************************)
MARKER == Chars("RECOMMENDATION:")

\* lines 513-514
DecisionWord(rec_line) ==
    IF Contains(Lower(rec_line), Chars("reuse")) THEN Chars("Reuse") ELSE Chars("Recycle")

DecisionReasonUnstripped(after) == after

\* line 515
DecisionReason(after) == Strip(after)

\* lines 510 and 555: text.split('RECOMMENDATION:', 1)
SplitMarker(text) == Split1(text, MARKER)

\* lines 505-519
DecisionParse(text) ==
    IF Contains(Upper(text), MARKER)
    THEN LET parts == SplitMarker(text)
         IN  IF Len(parts) > 1
             THEN [decision |-> DecisionWord(Strip(SplitFirst(parts[2], <<NL>>))),
                   reason |-> DecisionReason(parts[2])]
             ELSE [decision |-> Chars("Recycle"), reason |-> text]
    ELSE IF \/ StartsWith(Lower(text), Chars("reuse"))
            \/ Contains(Upto(Lower(text), 50), Chars(" reuse "))
    THEN [decision |-> Chars("Reuse"), reason |-> text]
    ELSE [decision |-> Chars("Recycle"), reason |-> text]

\* the keywords looked for in the whole text
ReuseFallbackWholeText(text) ==
    IF Contains(Lower(text), Chars("sell")) THEN Chars("Sell")
    ELSE IF Contains(Lower(text), Chars("donate")) THEN Chars("Donate")
    ELSE IF Contains(Lower(text), Chars("repair")) THEN Chars("Repair")
    ELSE Chars("Recycle")

\* lines 561-568
ReuseFallback(text) ==
    IF Contains(Upto(Lower(text), 100), Chars("sell")) THEN Chars("Sell")
    ELSE IF Contains(Upto(Lower(text), 100), Chars("donate")) THEN Chars("Donate")
    ELSE IF Contains(Upto(Lower(text), 100), Chars("repair")) THEN Chars("Repair")
    ELSE Chars("Recycle")

\* lines 528-529 and 554-569
ReuseParse(text) ==
    IF Contains(Upper(text), MARKER)
    THEN LET parts == SplitMarker(text)
         IN  IF Len(parts) > 1
             THEN [recommendation |-> Strip(SplitFirst(parts[2], <<NL>>)),
                   reasoning |-> Strip(parts[2])]
             ELSE [recommendation |-> NoneStr, reasoning |-> NoneStr]
    ELSE [recommendation |-> ReuseFallback(text), reasoning |-> text]

(***************************************************************************)
(* Decimal numbers: [m, e] is m / 10^e, kept without trailing zeros.       *)
(* They stand for the floats of value_estimator; float rounding error is   *)
(* not modelled.                                                           *)
(***************************************************************************)
RECURSIVE Pow10(_)
Pow10(n) == IF n <= 0 THEN 1 ELSE 10 * Pow10(n - 1)

RECURSIVE Dec(_, _)
Dec(m, e) == IF e > 0 /\ m % 10 = 0 THEN Dec(m \div 10, e - 1) ELSE [m |-> m, e |-> e]

DAdd(a, b) ==
    LET e == IF a.e > b.e THEN a.e ELSE b.e
    IN  Dec(a.m * Pow10(e - a.e) + b.m * Pow10(e - b.e), e)
DSub(a, b) == DAdd(a, [m |-> 0 - b.m, e |-> b.e])
DMul(a, b) == Dec(a.m * b.m, a.e + b.e)
DLess(a, b) ==
    LET e == IF a.e > b.e THEN a.e ELSE b.e
    IN  a.m * Pow10(e - a.e) < b.m * Pow10(e - b.e)
\* max(a, b) of Python: b when b > a, else a
DMax(a, b) == IF DLess(a, b) THEN b ELSE a
\* round(x, 2).  A decimal tie (a third decimal of exactly 5) is rounded to
\* even here; the float round() decides it by the binary value, so the texts
\* and ages of SpecValue are chosen to produce no tie.
DRound2(a) ==
    IF a.e <= 2 THEN a
    ELSE LET scale == Pow10(a.e - 2)
             q == a.m \div scale
             r == a.m % scale
             up == 2 * r > scale \/ (2 * r = scale /\ q % 2 = 1)
         IN  Dec(IF up THEN q + 1 ELSE q, 2)

DigitValue == [c \in Digits |-> CHOOSE n \in 0..9 : Chars("0123456789")[n + 1] = c]

RECURSIVE DigitsToInt(_, _)
DigitsToInt(tok, acc) ==
    IF tok = <<>> THEN acc
    ELSE DigitsToInt(Tail(tok), IF Head(tok) \in Digits THEN 10 * acc + DigitValue[Head(tok)] ELSE acc)

CountOf(tok, c) == Cardinality({i \in 1..Len(tok) : tok[i] = c})

\* float(tok) succeeds on a token of digits and dots: at least one digit and
\* at most one dot; otherwise it raises ValueError
FloatOk(tok) ==
    /\ \A i \in 1..Len(tok) : tok[i] \in Digits \cup {"."}
    /\ \E i \in 1..Len(tok) : tok[i] \in Digits
    /\ CountOf(tok, ".") <= 1

\* float(tok) for such a token
Float(tok) ==
    LET dot == Find(tok, <<".">>)
    IN  Dec(DigitsToInt(tok, 0), IF dot = 0 THEN 0 ELSE Len(tok) - dot)

\* float(s) of a str with surrounding whitespace and an optional sign, as in
\* lines 122-123, 138 and 725: the body after the sign is a token of digits
\* and dots.  (Exponents, 'inf' and 'nan' are outside the inputs drawn here.)
SignedBody(s) ==
    LET t == Strip(s)
    IN  IF t # <<>> /\ Head(t) \in {"+", "-"} THEN Tail(t) ELSE t

FloatStrOk(s) == FloatOk(SignedBody(s))

FloatStr(s) ==
    LET t == Strip(s)
        d == Float(SignedBody(s))
    IN  IF t # <<>> /\ Head(t) = "-" THEN Dec(0 - d.m, d.e) ELSE d

\* line 725: (request.POST.get('age') or '0').strip() or 0
AgeOperand(param) ==
    Strip(IF param = NoneStr \/ param = <<>> THEN Chars("0") ELSE param)

\* line 725 does not raise ValueError
AgeAccepted(param) == AgeOperand(param) = <<>> \/ FloatStrOk(AgeOperand(param))

\* line 725: age_years
AgeYears(param) ==
    IF AgeOperand(param) = <<>> THEN Dec(0, 0) ELSE FloatStr(AgeOperand(param))

\* tok.replace(',', '')
RECURSIVE RemoveCommas(_)
RemoveCommas(tok) ==
    IF tok = <<>> THEN <<>>
    ELSE (IF Head(tok) = "," THEN <<>> ELSE <<Head(tok)>>) \o RemoveCommas(Tail(tok))

(***************************************************************************)
(* value_estimator (views.py 717-783)                                      *)
(***************************************************************************)
\* the last position of the longest run of characters of cls that starts at
\* position j (j - 1 when the run is empty): a greedy cls* of the patterns
RunEnd(text, j, cls) ==
    LET bad == {k \in j..Len(text) : text[k] \notin cls}
    IN  IF bad = {} THEN Len(text) ELSE Min(bad) - 1

\* re.IGNORECASE match of a lower-case literal at position i
LiteralAt(text, lit, i) ==
    /\ i >= 1
    /\ i + Len(lit) - 1 <= Len(text)
    /\ Lower(SubSeq(text, i, i + Len(lit) - 1)) = lit

ColonSpace == Whitespace \cup {":"}
DigitDot == Digits \cup {"."}
DigitComma == Digits \cup {","}

\* r'<Name>[:\s]+([\d.]+)\s*g' matched at position i: the group's span, or
\* <<>> when the pattern does not match there.  The classes of adjacent
\* greedy runs are disjoint, so no shorter run can rescue a failed match.
QuantityMatchAt(text, name, i) ==
    LET a == i + Len(name)
        b == RunEnd(text, a, ColonSpace)
        c == RunEnd(text, b + 1, DigitDot)
        d == RunEnd(text, c + 1, Whitespace)
    IN  IF /\ LiteralAt(text, name, i)
           /\ b >= a
           /\ c >= b + 1
           /\ LiteralAt(text, <<"g">>, d + 1)
        THEN <<b + 1, c>> ELSE <<>>

\* the currency part of the price patterns as views.py holds it: the
\* characters U+00E2 U+201A, then U+00B9 made optional by the '?'
CurrencyEnd(text, j) ==
    IF LiteralAt(text, <<MOJI_A, MOJI_Q>>, j)
    THEN (IF LiteralAt(text, <<MOJI_1>>, j + 2) THEN j + 2 ELSE j + 1)
    ELSE 0

\* r'<Name>[:\s]+<currency>([\d,]+)' or ...([\d.]+) matched at position i
PriceMatchAt(text, name, cls, i) ==
    LET a == i + Len(name)
        b == RunEnd(text, a, ColonSpace)
        o == CurrencyEnd(text, b + 1)
        c == RunEnd(text, o + 1, cls)
    IN  IF /\ LiteralAt(text, name, i)
           /\ b >= a
           /\ o > 0
           /\ c >= o + 1
        THEN <<o + 1, c>> ELSE <<>>

\* re.search: the match at the leftmost position; group(1), or NoneStr
QuantitySearch(text, name) ==
    LET at == {i \in 1..Len(text) : QuantityMatchAt(text, name, i) # <<>>}
        m == QuantityMatchAt(text, name, Min(at))
    IN  IF at = {} THEN NoneStr ELSE SubSeq(text, m[1], m[2])

PriceSearch(text, name, cls) ==
    LET at == {i \in 1..Len(text) : PriceMatchAt(text, name, cls, i) # <<>>}
        m == PriceMatchAt(text, name, cls, Min(at))
    IN  IF at = {} THEN NoneStr ELSE SubSeq(text, m[1], m[2])

\* lines 744-765: the six tokens the patterns capture (NoneStr: no match),
\* each already passed through the replace(',', '') its line applies
MetalNames == [gold_g |-> Chars("gold"), copper_g |-> Chars("copper"), silver_g |-> Chars("silver")]

ValueTokens(text) ==
    LET gp == PriceSearch(text, MetalNames.gold_g, DigitComma)
        sp == PriceSearch(text, MetalNames.silver_g, DigitDot)
    IN  [gold_g |-> QuantitySearch(text, MetalNames.gold_g),
         gold_p |-> IF gp = NoneStr THEN NoneStr ELSE RemoveCommas(gp),
         copper_g |-> QuantitySearch(text, MetalNames.copper_g),
         copper_p |-> PriceSearch(text, MetalNames.copper_g, DigitDot),
         silver_g |-> QuantitySearch(text, MetalNames.silver_g),
         silver_p |-> IF sp = NoneStr THEN NoneStr ELSE RemoveCommas(sp)]

TokenNames == {"gold_g", "gold_p", "copper_g", "copper_p", "silver_g", "silver_p"}

\* some float(...) of lines 746-765 raises ValueError (t: the tokens)
ValueRaises(t) ==
    \E k \in TokenNames : t[k] # NoneStr /\ ~FloatOk(t[k])

FloatOrDefault(tok, default) == IF tok = NoneStr THEN default ELSE Float(tok)

\* line 739 and the quantity assignments
ParsedMetals(t) ==
        [gold_g |-> FloatOrDefault(t.gold_g, Dec(0, 0)),
         copper_g |-> FloatOrDefault(t.copper_g, Dec(0, 0)),
         silver_g |-> FloatOrDefault(t.silver_g, Dec(0, 0))]

\* line 740 and the price assignments
ParsedPrices(t) ==
        [gold_g |-> FloatOrDefault(t.gold_p, Dec(7000, 0)),
         copper_g |-> FloatOrDefault(t.copper_p, Dec(9, 1)),
         silver_g |-> FloatOrDefault(t.silver_p, Dec(90, 0))]

\* line 768
BaseValue(metals, prices) ==
    DAdd(DAdd(DMul(metals.gold_g, prices.gold_g), DMul(metals.copper_g, prices.copper_g)),
         DMul(metals.silver_g, prices.silver_g))

\* the floor lowered to 0.2
DepreciationFactorFloor02(age) == DMax(Dec(2, 1), DSub(Dec(1, 0), DMul(age, Dec(5, 2))))

\* line 770
DepreciationFactor(age) == DMax(Dec(3, 1), DSub(Dec(1, 0), DMul(age, Dec(5, 2))))

\* lines 739-781 on the tokens t of text, when no float() raises
ValueResult(text, t, age) ==
    LET metals == ParsedMetals(t)
        prices == ParsedPrices(t)
        base_value == BaseValue(metals, prices)
        payout == DMul(base_value, DepreciationFactor(age))
    IN  [age_years |-> age,
         metals |-> metals,
         prices |-> prices,
         base_value |-> DRound2(base_value),
         estimated_payout |-> DRound2(payout),
         ai_response |-> text]

(***************************************************************************)
(* get_ai_explanation (utils/ai.py 8-98).  A model name is the sequence of *)
(* its '/'-separated parts: "models/gemini-pro" is <<"models",             *)
(* "gemini-pro">>.                                                         *)
(***************************************************************************)
FALLBACK ==
    Chars("AI key not configured. For demo: Many e-waste components can leach toxic substances like lead, ")
    \o Chars("mercury, and brominated flame retardants. These can contaminate soil and water, harm the nervous ")
    \o Chars("and endocrine systems, and persist in the environment. Always dispose of devices at certified ")
    \o Chars("recycling centers to reduce exposure and enable safe material recovery.")

\* lines 56-62
preferred_order ==
    <<"gemini-1.5-flash-002", "gemini-1.5-flash-latest", "gemini-1.5-pro-002",
      "gemini-1.5-pro-latest", "gemini-pro">>

Range(f) == {f[i] : i \in DOMAIN f}

\* lines 48-51
supports_text(m) == "generateContent" \in m.methods \/ "generate_text" \in m.methods

\* line 53
RECURSIVE candidate_names(_)
candidate_names(models) ==
    IF models = <<>> THEN <<>>
    ELSE (IF supports_text(Head(models)) THEN <<Head(models).name>> ELSE <<>>)
            \o candidate_names(Tail(models))

\* line 69: cand == preferred or cand.endswith("/" + preferred)
MatchesPreferred(cand, preferred) ==
    \/ cand = <<preferred>>
    \/ (Len(cand) >= 2 /\ cand[Len(cand)] = preferred)

\* lines 70-71 and 74-75
AppendNew(ordered, cand) == IF cand \in Range(ordered) THEN ordered ELSE Append(ordered, cand)

\* lines 68-71: the inner loop for one preferred name
RECURSIVE AddMatching(_, _, _)
AddMatching(ordered, cands, preferred) ==
    IF cands = <<>> THEN ordered
    ELSE AddMatching(IF MatchesPreferred(Head(cands), preferred)
                     THEN AppendNew(ordered, Head(cands)) ELSE ordered,
                     Tail(cands), preferred)

\* lines 66-71
RECURSIVE AddPreferred(_, _, _)
AddPreferred(ordered, cands, prefs) ==
    IF prefs = <<>> THEN ordered
    ELSE AddPreferred(AddMatching(ordered, cands, Head(prefs)), cands, Tail(prefs))

\* lines 73-75
RECURSIVE AddRemaining(_, _)
AddRemaining(ordered, cands) ==
    IF cands = <<>> THEN ordered
    ELSE AddRemaining(AppendNew(ordered, Head(cands)), Tail(cands))

\* the candidates in discovery order, the preference list ignored
OrderedToTryDiscoveryOrder(cands) == AddRemaining(<<>>, cands)

\* lines 65-75
OrderedToTry(cands) == AddRemaining(AddPreferred(<<>>, cands, preferred_order), cands)

\* what the provider answers for a model that yields text: padded text that
\* names the model
ResponseText(name) == <<" ", "reply of">> \o name \o <<NL>>

\* resp.text for each outcome of generate_content that does not raise
OutcomeText(name, outcome) == IF outcome = "text" THEN ResponseText(name) ELSE <<" ">>

\* lines 35 and 85: (text or "").strip()
Usable(text) == Strip(text) # <<>>

\* the except clause that catches an exception raised at each place of the
\* function body ("uncaught": none, the exception leaves the function)
HandlerOfNoInner ==
    [import |-> "outer", configure |-> "outer", explicit |-> "uncaught",
     list_models |-> "uncaught", filter |-> "outer", loop |-> "uncaught"]

\* lines 22, 29, 37, 41, 43, 78, 87, 89
HandlerOf ==
    [import |-> "outer", configure |-> "outer", explicit |-> "except_37",
     list_models |-> "except_43", filter |-> "outer", loop |-> "except_87"]

\* the loop of line 77 stops at the first usable text (return of line 86)
AfterSuccessKeepGoing == "loop"
AfterSuccess == "done"

(***************************************************************************)
(* centers_nearby_api (views.py 101-396).  A coordinate is a decimal, or   *)
(* NoFloat where the code has None or the provider's record has no such    *)
(* member.  A provider record is [address, lat, lng].                      *)
(***************************************************************************)
NoFloat == [none |-> TRUE]

\* a session without a 'challenges_completed' entry
NoSession == [has |-> FALSE, challenges_completed |-> <<>>]

\* a <= b
DLeq(a, b) == ~DLess(b, a)

EndsWith(s, suffix) ==
    Len(s) >= Len(suffix) /\ From(s, Len(s) - Len(suffix)) = suffix

\* (request.GET.get(name) or '').strip(), line 114
StrippedParam(val) == IF val = NoneStr THEN <<>> ELSE Strip(val)

\* line 115
CountryCode(req) == Lower(StrippedParam(req.country))

\* lines 118-126: lat and lng are set together, and only when both
\* parameters are given and both are numbers
CenterGiven(req) ==
    /\ req.lat # NoneStr /\ req.lat # <<>>
    /\ req.lng # NoneStr /\ req.lng # <<>>
    /\ FloatStrOk(req.lat)
    /\ FloatStrOk(req.lng)

\* lines 136-140
_parse_float(val) ==
    IF val # NoneStr /\ FloatStrOk(val) THEN FloatStr(val) ELSE NoFloat

\* lines 142-145
ParsedBounds(req) ==
    [sw_lat |-> _parse_float(req.sw_lat), sw_lng |-> _parse_float(req.sw_lng),
     ne_lat |-> _parse_float(req.ne_lat), ne_lng |-> _parse_float(req.ne_lng)]

\* lines 147-154
_within_bounds(b, lat_v, lng_v) ==
    IF NoFloat \in {b.sw_lat, b.sw_lng, b.ne_lat, b.ne_lng} THEN TRUE
    ELSE /\ DLeq(b.sw_lat, lat_v) /\ DLeq(lat_v, b.ne_lat)
         /\ DLeq(b.sw_lng, lng_v) /\ DLeq(lng_v, b.ne_lng)

\* line 157
gmaps_key(req) == req.GOOGLE_MAPS_API_KEY \/ req.GOOGLE_PLACES_API_KEY

\* line 158
yelp_key(req) == req.YELP_API_KEY

\* lines 173-176
country_name_map ==
    [c \in {Chars("in"), Chars("us"), Chars("gb"), Chars("ca"), Chars("au")} |->
        CASE c = Chars("in") -> Chars("India")
          [] c = Chars("us") -> Chars("USA")
          [] c = Chars("gb") -> Chars("UK")
          [] c = Chars("ca") -> Chars("Canada")
          [] c = Chars("au") -> Chars("Australia")]

country_label(req) ==
    IF CountryCode(req) \in DOMAIN country_name_map
    THEN country_name_map[CountryCode(req)]
    ELSE Upper(CountryCode(req))

\* line 177
text_query(req) ==
    StrippedParam(req.q)
        \o (IF country_label(req) # <<>> THEN Chars(", ") \o country_label(req) ELSE <<>>)

\* line 276
exclude_us(req) == CountryCode(req) # <<>> /\ CountryCode(req) # Chars("us")

ADDRESS_UNAVAILABLE == Chars("Address unavailable")

\* lines 259, 280, 334, 381
AddressOf(p) == IF p.address = NoneStr \/ p.address = <<>> THEN ADDRESS_UNAVAILABLE ELSE p.address

\* lines 282, 335
NamesUnitedStates(address) ==
    Contains(address, Chars("United States")) \/ EndsWith(address, Chars(", USA"))

\* lines 284, 337, 260: 'latitude' in loc and 'longitude' in loc
HasLocation(p) == p.lat # NoFloat /\ p.lng # NoFloat

\* lines 282-294 and 335-346: the record reaches results.append
KeptWithCountryFilter(req, p) ==
    /\ ~(exclude_us(req) /\ NamesUnitedStates(AddressOf(p)))
    /\ HasLocation(p)
    /\ ~(exclude_us(req) /\ DLess(p.lng, Dec(0 - 30, 0)))
    /\ _within_bounds(ParsedBounds(req), p.lat, p.lng)

\* lines 260-264: the text search made after a failed nearby search
KeptAfterNearbyError(req, p) ==
    /\ HasLocation(p)
    /\ _within_bounds(ParsedBounds(req), p.lat, p.lng)

\* line 382: coords.get('latitude') and coords.get('longitude'), by truth value
Truthy(v) == v # NoFloat /\ v.m # 0
KeptFromYelp(p) == Truthy(p.lat) /\ Truthy(p.lng)

\* the dict of results.append
Center(p, source) ==
    [address |-> AddressOf(p), latitude |-> p.lat, longitude |-> p.lng, source |-> source]

Centers(kept, source) == [i \in 1..Len(kept) |-> Center(kept[i], source)]

\* lines 277-306
NearbyResults(req, places) ==
    Centers(SelectSeq(places, LAMBDA p : KeptWithCountryFilter(req, p)),
            "google_places_new_nearby")

\* lines 331-358
BroadTextResults(req, places) ==
    Centers(SelectSeq(places, LAMBDA p : KeptWithCountryFilter(req, p)),
            "google_places_new_text")

\* lines 256-271
ErrorTextResults(req, places) ==
    Centers(SelectSeq(places, LAMBDA p : KeptAfterNearbyError(req, p)),
            "google_places_new_text")

\* lines 378-389
YelpResults(places) ==
    Centers(SelectSeq(places, LAMBDA p : KeptFromYelp(p)), "yelp")

\* no text search after a nearby search that kept nothing
AfterNearbyNoTextSearch(res) == "done"

\* lines 309 and 360: `if not results` leads to the broader text search
AfterNearby(res) == IF res = <<>> THEN "broad_text" ELSE "done"

\* the secondary provider is preferred whenever its key is set
FirstStepYelpFirst(req) ==
    IF yelp_key(req) THEN "yelp"
    ELSE IF gmaps_key(req)
         THEN (IF StrippedParam(req.q) # <<>> /\ ~CenterGiven(req) THEN "resolve" ELSE "nearby")
         ELSE "done"

\* lines 162, 172, 364, 394: where control goes after the parameters are read
FirstStep(req) ==
    IF gmaps_key(req)
    THEN (IF StrippedParam(req.q) # <<>> /\ ~CenterGiven(req) THEN "resolve" ELSE "nearby")
    ELSE IF yelp_key(req) THEN "yelp" ELSE "done"

\* the JsonResponse bodies: members names the members the body has
ResponseOk(centers) ==
    [status |-> 200, members |-> {"centers"}, centers |-> centers, provider |-> NONE,
     error |-> NONE, query |-> NoneStr]

\* line 205
ResponseUnresolved(req) ==
    [status |-> 400, members |-> {"centers", "provider", "error", "query"}, centers |-> <<>>,
     provider |-> "google_places_new_text_geocode",
     error |-> "Could not resolve place to coordinates", query |-> text_query(req)]

\* lines 248-253
ResponseBothFailed ==
    [status |-> 502, members |-> {"centers", "provider", "nearby_error", "textsearch_error"},
     centers |-> <<>>, provider |-> "google_places_new", error |-> NONE, query |-> NoneStr]

\* line 329
ResponseTextFailed ==
    [status |-> 502, members |-> {"centers", "provider", "error"}, centers |-> <<>>,
     provider |-> "google_places_new_text", error |-> "text search error body", query |-> NoneStr]

\* line 362
ResponseGoogleException ==
    [status |-> 502, members |-> {"error"}, centers |-> <<>>, provider |-> NONE,
     error |-> "Google Places (New) failed", query |-> NoneStr]

\* line 392
ResponseYelpException ==
    [status |-> 502, members |-> {"error"}, centers |-> <<>>, provider |-> NONE,
     error |-> "Yelp search failed", query |-> NoneStr]

\* lines 394-396
ResponseNoProvider ==
    [status |-> 412, members |-> {"error"}, centers |-> <<>>, provider |-> NONE,
     error |-> "No external provider configured", query |-> NoneStr]

(***************************************************************************)
(* Specifications.  The provider composes its text piece by piece; a view  *)
(* then handles one request on the text it was given.                      *)
(***************************************************************************)
TextIdle ==
    /\ raw = <<>>
    /\ chunks = 0
    /\ view = "none"
    /\ status = "pending"
    /\ questions = <<>>
    /\ result = NoResult
    /\ recommendation = NoneStr
    /\ reasoning = NoneStr
    /\ age_years = Dec(0, 0)

AiIdle ==
    /\ env = [key |-> FALSE, explicit_model |-> <<>>]
    /\ pc = "idle"
    /\ available = <<>>
    /\ ordered_to_try = <<>>
    /\ tried = 0
    /\ attempts = <<>>
    /\ calls = 0
    /\ returned = NoneStr

GeoIdle ==
    /\ request = [q |-> NoneStr, country |-> NoneStr, lat |-> NoneStr, lng |-> NoneStr,
                  sw_lat |-> NoneStr, sw_lng |-> NoneStr, ne_lat |-> NoneStr,
                  ne_lng |-> NoneStr, GOOGLE_MAPS_API_KEY |-> FALSE,
                  GOOGLE_PLACES_API_KEY |-> FALSE, YELP_API_KEY |-> FALSE]
    /\ gpc = "idle"
    /\ lat = NoFloat
    /\ lng = NoFloat
    /\ sent = <<>>
    /\ results = <<>>
    /\ response = NoResult

DbIdle ==
    /\ completions = <<>>
    /\ credit_rows = <<>>
    /\ session = NoSession
    /\ logged_in = FALSE
    /\ handlers = <<>>
    /\ started = 0

MaxQuizLines == 6

QuizSegments ==
    {Chars("1. Q\n"), Chars("A: x\n"), Chars(" b) y\n"), Chars("C:\n"),
     Chars("CORRECT: D\n")}

ProviderEmitLine ==
    /\ status = "pending"
    /\ chunks < MaxQuizLines
    /\ \E seg \in QuizSegments : raw' = raw \o seg
    /\ chunks' = chunks + 1
    /\ UNCHANGED <<view, status, questions, result, recommendation, reasoning, age_years>>
    /\ UNCHANGED aiVars
    /\ UNCHANGED geoVars
    /\ UNCHANGED dbVars

\* quiz, request.method == 'GET'
QuizGet ==
    /\ status = "pending"
    /\ view' = "quiz"
    /\ questions' = QuizQuestions(raw)
    /\ status' = "rendered"
    /\ UNCHANGED <<raw, chunks, result, recommendation, reasoning, age_years>>
    /\ UNCHANGED aiVars
    /\ UNCHANGED geoVars
    /\ UNCHANGED dbVars

QuizInit == TextIdle /\ AiIdle /\ GeoIdle /\ DbIdle
QuizNext == ProviderEmitLine \/ QuizGet
SpecQuiz == QuizInit /\ [][QuizNext]_vars

QuizRendered == view = "quiz" /\ status = "rendered"

\* C1: for every provider text the quiz GET handler produces exactly 5
\* questions, each with exactly 4 options and an answer in {A, B, C, D}.
C1_FiveWellFormedQuestions ==
    QuizRendered =>
        /\ Len(questions) = 5
        /\ \A i \in 1..Len(questions) :
              /\ Len(questions[i].options) = 4
              /\ questions[i].answer \in {"A", "B", "C", "D"}

\* C1 witness: a question parsed from the text was accepted and the list was
\* padded with the template behind it.
C1_Witness ==
    /\ QuizRendered
    /\ Len(questions) = 5
    /\ questions[1].q = Chars("Q")
    /\ questions[2] = TemplateQuestion(2)

\* C2: every question of the output has four options whose labels are A, B,
\* C and D once each and whose option texts are all non-empty.
C2_DistinctLabelsNonEmptyTexts ==
    QuizRendered =>
        \A i \in 1..Len(questions) :
            /\ Len(questions[i].options) = 4
            /\ {questions[i].options[k].label : k \in 1..Len(questions[i].options)}
                  = {"A", "B", "C", "D"}
            /\ \A k \in 1..Len(questions[i].options) : questions[i].options[k].text # <<>>

(***************************************************************************)
(* SpecQuizAnswers: the quiz GET handler on provider text made of question *)
(* lines, blocks of four options and answer lines of every marker          *)
(***************************************************************************)
MaxAnswerSegs == 4

FOUR_OPTIONS == Chars("A: w\nB: x\nC: y\nD: z\n")

AnswerSegments ==
    {Chars("1. Q\n"), FOUR_OPTIONS, Chars("ANSWER: B\n"), Chars("CORRECT: D\n"),
     Chars("Correct: b\n"), Chars("ans: d\n")}

ProviderEmitAnswerLine ==
    /\ status = "pending"
    /\ chunks < MaxAnswerSegs
    /\ \E seg \in AnswerSegments : raw' = raw \o seg
    /\ chunks' = chunks + 1
    /\ UNCHANGED <<view, status, questions, result, recommendation, reasoning, age_years>>
    /\ UNCHANGED aiVars
    /\ UNCHANGED geoVars
    /\ UNCHANGED dbVars

AnswersInit == TextIdle /\ AiIdle /\ GeoIdle /\ DbIdle
AnswersNext == ProviderEmitAnswerLine \/ QuizGet
SpecQuizAnswers == AnswersInit /\ [][AnswersNext]_vars

\* the non-empty lines of the provider text, trimmed
TextLines == SelectSeqStripped(SplitLines(raw))

\* the text is one question: a question line first, four option lines, and
\* an answer line last
OneAnsweredQuestion ==
    /\ Len(TextLines) >= 6
    /\ {i \in 1..Len(TextLines) : StartsWithAny(Upper(TextLines[i]), QuestionMarkers)} = {1}
    /\ Cardinality({i \in 1..Len(TextLines) : IsOptionLine(Upper(TextLines[i]))}) = 4
    /\ StartsWithAny(Upper(TextLines[Len(TextLines)]), AnswerMarkers)

\* the answer line that was read last, upper-cased
LastAnswerLine == Upper(TextLines[Len(TextLines)])

LettersIn(line) == {line[i] : i \in 1..Len(line)} \cap {"A", "B", "C", "D"}

C25_AnswerIsLetterAfterMarker ==
    (QuizRendered /\ OneAnsweredQuestion) =>
        questions[1].answer = LastAnswerLine[Len(LastAnswerLine)]

(***************************************************************************)
(* SpecDecision: decision and reuse_marketplace on composed provider text  *)
(***************************************************************************)
MaxDecisionSegs == 5

DecisionSegments ==
    {MARKER, Chars("Recommendation:"), Chars(" Reuse"), Chars(" Sell"), Chars("\nOk.")}

ProviderEmitWord ==
    /\ status = "pending"
    /\ chunks < MaxDecisionSegs
    /\ \E seg \in DecisionSegments : raw' = raw \o seg
    /\ chunks' = chunks + 1
    /\ UNCHANGED <<view, status, questions, result, recommendation, reasoning, age_years>>
    /\ UNCHANGED aiVars
    /\ UNCHANGED geoVars
    /\ UNCHANGED dbVars

\* decision, POST: lines 489-520
Decision ==
    /\ status = "pending"
    /\ view' = "decision"
    /\ \E item \in {<<>>, Chars("tv")} :
          result' = IF item # <<>> THEN DecisionParse(raw) ELSE NoResult
    /\ status' = "rendered"
    /\ UNCHANGED <<raw, chunks, questions, recommendation, reasoning, age_years>>
    /\ UNCHANGED aiVars
    /\ UNCHANGED geoVars
    /\ UNCHANGED dbVars

\* reuse_marketplace, POST: lines 535-569
ReuseMarketplace ==
    /\ status = "pending"
    /\ view' = "reuse_marketplace"
    /\ recommendation' = ReuseParse(raw).recommendation
    /\ reasoning' = ReuseParse(raw).reasoning
    /\ status' = "rendered"
    /\ UNCHANGED <<raw, chunks, questions, result, age_years>>
    /\ UNCHANGED aiVars
    /\ UNCHANGED geoVars
    /\ UNCHANGED dbVars

DecisionInit == TextIdle /\ AiIdle /\ GeoIdle /\ DbIdle
DecisionNext == ProviderEmitWord \/ Decision \/ ReuseMarketplace
SpecDecision == DecisionInit /\ [][DecisionNext]_vars

DecisionParsed == view = "decision" /\ status = "rendered" /\ result # NoResult
ReuseParsed == view = "reuse_marketplace" /\ status = "rendered"

DecisionCategories == {Chars("Recycle"), Chars("Reuse")}
ReuseCategories == {Chars("Sell"), Chars("Donate"), Chars("Repair"), Chars("Recycle")}

\* C6: after decision or reuse_marketplace parses any provider text the
\* category is a member of the feature's closed set, never null, empty or
\* free text.
C6_CategoryInClosedSet ==
    /\ DecisionParsed => result.decision \in DecisionCategories
    /\ ReuseParsed => recommendation \in ReuseCategories

\* the text after the first marker of any letter case, and its first line
AfterMarkerAnyCase(text) == From(text, Find(Upper(text), MARKER) + Len(MARKER) - 1)
LabelLine(after) == Strip(SplitFirst(after, <<NL>>))

\* C7: the marker is recognised in any letter case: the parsers extract the
\* label that follows it and take the text after it as the rationale.
C7_MarkerCaseInsensitive ==
    /\ (DecisionParsed /\ Contains(Upper(raw), MARKER)) =>
          /\ result.reason = Strip(AfterMarkerAnyCase(raw))
          /\ result.decision = DecisionWord(LabelLine(AfterMarkerAnyCase(raw)))
    /\ (ReuseParsed /\ Contains(Upper(raw), MARKER)) =>
          /\ reasoning = Strip(AfterMarkerAnyCase(raw))
          /\ recommendation = LabelLine(AfterMarkerAnyCase(raw))

ReuseLabelled == Chars("RECOMMENDATION: Reuse")
\* "RECOMMENDATION: Reuse" occurs at i and a sentence follows it
ReuseThenSentenceAt(text, i) ==
    /\ OccursAt(text, ReuseLabelled, i)
    /\ Strip(From(text, i + Len(ReuseLabelled) - 1)) # <<>>

MaxScanSegs == 5

\* 48 characters without a keyword
FILLER == Chars("This device is three years old and works fine.  ")

ScanSegments == {FILLER, Chars(" Sell"), Chars(" donate"), Chars("REPAIR")}

ProviderEmitKeyword ==
    /\ status = "pending"
    /\ chunks < MaxScanSegs
    /\ \E seg \in ScanSegments : raw' = raw \o seg
    /\ chunks' = chunks + 1
    /\ UNCHANGED <<view, status, questions, result, recommendation, reasoning, age_years>>
    /\ UNCHANGED aiVars
    /\ UNCHANGED geoVars
    /\ UNCHANGED dbVars

ScanInit == TextIdle /\ AiIdle /\ GeoIdle /\ DbIdle
ScanNext == ProviderEmitKeyword \/ ReuseMarketplace
SpecReuseScan == ScanInit /\ [][ScanNext]_vars

\* the keyword, in any case, lies wholly within the first 100 characters
WithinFirst100(keyword) ==
    \E i \in 1..(100 - Len(keyword) + 1) :
        /\ i + Len(keyword) - 1 <= Len(raw)
        /\ Lower(SubSeq(raw, i, i + Len(keyword) - 1)) = keyword

\* C21: without the marker, the category is Sell if 'sell' occurs in the
\* first 100 characters (any case), else Donate if 'donate' does, else Repair
\* if 'repair' does, else Recycle; the whole text is the rationale.
C21_FallbackScansFirst100 ==
    (ReuseParsed /\ ~Contains(Upper(raw), MARKER)) =>
        /\ recommendation =
              (IF WithinFirst100(Chars("sell")) THEN Chars("Sell")
               ELSE IF WithinFirst100(Chars("donate")) THEN Chars("Donate")
               ELSE IF WithinFirst100(Chars("repair")) THEN Chars("Repair")
               ELSE Chars("Recycle"))
        /\ reasoning = raw

\* 'donate' and 'repair' lie within the first 100 characters, 'sell' beyond
\* them: Donate, by priority over Repair
C21_Witness ==
    /\ ReuseParsed
    /\ raw = Chars(" donate") \o Chars("REPAIR") \o FILLER \o FILLER \o Chars(" Sell")
    /\ recommendation = Chars("Donate")
    /\ reasoning = raw

(***************************************************************************)
(* SpecValue: value_estimator on composed provider text, and on answers    *)
(* in the format its prompt asks for (lines 732-733)                       *)
(***************************************************************************)
MaxValueSegs == 4

MOJIBAKE == <<MOJI_A, MOJI_Q, MOJI_1>>

ValueSegments ==
    {Chars("Gold: "), Chars("Silver "), Chars("0.5"), Chars("1.2.3"), Chars(" g"),
     Chars(","), MOJIBAKE}

\* the 'age' field of the POST: absent, blank, plain, padded, signed, not a number
AgeParams ==
    {NoneStr, Chars("  "), Chars("2"), Chars("14"), Chars("20"), Chars(" 14.5 "),
     Chars("-2"), Chars("x")}

FormatParams ==
    [cur : {<<RUPEE>>, MOJIBAKE},
     q1 : {Chars("0.05"), Chars("0.1")},
     q2 : {Chars("12.3"), Chars("8")},
     q3 : {Chars("0.30"), Chars("1")},
     p1 : {Chars("7200"), Chars("7,200")},
     p2 : {Chars("0.9"), Chars("1")},
     p3 : {Chars("95"), Chars("100"), Chars("1,500")}]

\* 'Gold: X.XX g, Copper: YY.Y g, Silver: Z.ZZ g. Prices: Gold <cur>AAAA per g,
\* Copper <cur>BB per g, Silver <cur>CCC per g.'
FormatText ==
    [f \in FormatParams |->
        Chars("Gold: ") \o f.q1 \o Chars(" g, Copper: ") \o f.q2
            \o Chars(" g, Silver: ") \o f.q3 \o Chars(" g. Prices: Gold ")
            \o f.cur \o f.p1 \o Chars(" per g, Copper ") \o f.cur \o f.p2
            \o Chars(" per g, Silver ") \o f.cur \o f.p3 \o Chars(" per g.")]

FormatTexts == {FormatText[f] : f \in FormatParams}

ProviderEmitToken ==
    /\ status = "pending"
    /\ chunks < MaxValueSegs
    /\ raw \notin FormatTexts
    /\ \E seg \in ValueSegments : raw' = raw \o seg
    /\ chunks' = chunks + 1
    /\ UNCHANGED <<view, status, questions, result, recommendation, reasoning, age_years>>
    /\ UNCHANGED aiVars
    /\ UNCHANGED geoVars
    /\ UNCHANGED dbVars

ProviderAnswersInFormat ==
    /\ status = "pending"
    /\ raw = <<>>
    /\ \E f \in FormatParams : raw' = FormatText[f]
    /\ chunks' = chunks + 1
    /\ UNCHANGED <<view, status, questions, result, recommendation, reasoning, age_years>>
    /\ UNCHANGED aiVars
    /\ UNCHANGED geoVars
    /\ UNCHANGED dbVars

\* value_estimator, POST: lines 723-783
ValueEstimator ==
    /\ status = "pending"
    /\ view' = "value_estimator"
    /\ \E t \in {ValueTokens(raw)} :
           \E param \in AgeParams :
             IF ~AgeAccepted(param)
             THEN status' = "age_error" /\ result' = NoResult /\ UNCHANGED age_years
             ELSE /\ age_years' = AgeYears(param)
                  /\ IF ValueRaises(t)
                     THEN status' = "error" /\ result' = NoResult
                     ELSE status' = "rendered" /\ result' = ValueResult(raw, t, AgeYears(param))
    /\ UNCHANGED <<raw, chunks, questions, recommendation, reasoning>>
    /\ UNCHANGED aiVars
    /\ UNCHANGED geoVars
    /\ UNCHANGED dbVars

ValueInit == TextIdle /\ AiIdle /\ GeoIdle /\ DbIdle
ValueNext == ProviderEmitToken \/ ProviderAnswersInFormat \/ ValueEstimator
SpecValue == ValueInit /\ [][ValueNext]_vars

ValueHandled == view = "value_estimator" /\ status \in {"rendered", "error"}

\* the spec's example: 0.05 / 12.3 / 0.30 g, 7200 / 0.9 / 95 per g
ExampleParams ==
    [cur |-> <<RUPEE>>, q1 |-> Chars("0.05"), q2 |-> Chars("12.3"), q3 |-> Chars("0.30"),
     p1 |-> Chars("7200"), p2 |-> Chars("0.9"), p3 |-> Chars("95")]

\* C3: for an answer in the prompted format with the rupee sign, each
\* quantity is parsed as q and each price as the p of the Prices segment, so
\* the base value is the sum of q * p; the example at age 2 gives 399.57 with
\* factor 0.9 and payout 359.61.
C3_PromptedFormatParsed ==
    ValueHandled =>
        \A f \in FormatParams :
            (f.cur = <<RUPEE>> /\ raw = FormatText[f]) =>
                /\ status = "rendered"
                /\ result.metals = [gold_g |-> Float(f.q1), copper_g |-> Float(f.q2),
                                    silver_g |-> Float(f.q3)]
                /\ result.prices = [gold_g |-> Float(RemoveCommas(f.p1)),
                                    copper_g |-> Float(f.p2), silver_g |-> Float(f.p3)]
                /\ result.base_value = DRound2(BaseValue(result.metals, result.prices))
                /\ (f = ExampleParams /\ age_years = Dec(2, 0)) =>
                      /\ result.base_value = Dec(39957, 2)
                      /\ DepreciationFactor(age_years) = Dec(9, 1)
                      /\ result.estimated_payout = Dec(35961, 2)

PriceClasses == [gold_g |-> DigitComma, copper_g |-> DigitDot, silver_g |-> DigitDot]
Baseline == [gold_g |-> Dec(7000, 0), copper_g |-> Dec(9, 1), silver_g |-> Dec(90, 0)]

\* C4: for each metal, when the text holds '<Metal>: <number> g' the quantity
\* is that number; when it holds no such match the quantity is 0.0; a price
\* the text does not give keeps its baseline (7000, 0.9, 90), never null.
C4_QuantityOrDefault ==
    ValueHandled =>
        \A k \in DOMAIN MetalNames :
            LET tok == QuantitySearch(raw, MetalNames[k])
                ptok == PriceSearch(raw, MetalNames[k], PriceClasses[k])
            IN  /\ status = "rendered"
                /\ result.metals[k] = IF tok # NoneStr /\ FloatOk(tok) THEN Float(tok)
                                      ELSE Dec(0, 0)
                /\ ptok = NoneStr => result.prices[k] = Baseline[k]

\* C5: parsing of provider text never raises, whatever token the number
\* patterns capture.
C5_ParsingNeverRaises ==
    view = "value_estimator" => status # "error"

ValueRendered == view = "value_estimator" /\ status = "rendered"

\* the payout before rounding, from the metals and prices of the result
UnroundedBase == BaseValue(result.metals, result.prices)

\* C18: for every age the view accepts, the depreciation factor lies in
\* [0.3, 1.0]: the payout is at most the base value and at least 30% of it.
C18_FactorWithinRange ==
    ValueRendered =>
        /\ ~DLess(DepreciationFactor(age_years), Dec(3, 1))
        /\ ~DLess(Dec(1, 0), DepreciationFactor(age_years))
        /\ ~DLess(result.base_value, result.estimated_payout)
        /\ ~DLess(result.estimated_payout, DRound2(DMul(UnroundedBase, Dec(3, 1))))

\* 1 - 0.05 * age floored at 0.3, written by cases: the floor is reached at
\* 14 years
FlooredLinearDecay(age) ==
    IF ~DLess(age, Dec(14, 0)) THEN Dec(3, 1)
    ELSE DSub(Dec(1, 0), DMul(Dec(5, 2), age))

\* C19: the payout is the base value times max(0.3, 1 - 0.05 * age): times
\* exactly 0.3 for every age of 14 years or more, times exactly 1 for age 0.
C19_FlooredLinearFactor ==
    ValueRendered =>
        /\ result.estimated_payout =
               DRound2(DMul(UnroundedBase, FlooredLinearDecay(age_years)))
        /\ ~DLess(age_years, Dec(14, 0)) =>
               result.estimated_payout = DRound2(DMul(UnroundedBase, Dec(3, 1)))
        /\ age_years = Dec(0, 0) => result.estimated_payout = result.base_value

\* 'Gold: 0.5 g' at the padded age ' 14.5 ': 3500 of base value, 1050 paid
C19_Witness ==
    /\ ValueRendered
    /\ raw = Chars("Gold: 0.5 g")
    /\ age_years = Dec(145, 1)
    /\ result.base_value = Dec(3500, 0)
    /\ result.estimated_payout = Dec(1050, 0)

\* C20: for each metal, a price written with thousands separators after the
\* currency characters the patterns expect is parsed as the full number.
C20_ThousandsSeparatorsRemoved ==
    ValueHandled =>
        \A f \in FormatParams :
            (f.cur = MOJIBAKE /\ raw = FormatText[f]) =>
                /\ status = "rendered"
                /\ result.prices = [gold_g |-> Float(RemoveCommas(f.p1)),
                                    copper_g |-> Float(RemoveCommas(f.p2)),
                                    silver_g |-> Float(RemoveCommas(f.p3))]

(***************************************************************************)
(* SpecAI: one call of get_ai_explanation, statement by statement, against *)
(* a provider whose calls may raise, answer blank text or answer text      *)
(***************************************************************************)
MaxModels == 3

ModelUniverse ==
    {[name |-> <<"models", "gemini-pro">>, methods |-> {"generateContent"}],
     [name |-> <<"gemini-1.5-flash-002">>, methods |-> {"generateContent", "countTokens"}],
     [name |-> <<"models", "custom">>, methods |-> {"generate_text"}],
     [name |-> <<"models", "gemini-2.0-flash">>, methods |-> {"generateContent"}],
     [name |-> <<"models", "embedding-001">>, methods |-> {"embedContent"}]}

\* list_models() answers: distinct models in some order
Listings ==
    {l \in UNION {[1..n -> ModelUniverse] : n \in 0..MaxModels} :
        \A i, j \in DOMAIN l : i # j => l[i] # l[j]}

Outcomes == {"raises", "blank", "text"}

AiInit ==
    /\ TextIdle
    /\ GeoIdle
    /\ DbIdle
    /\ env \in [key : BOOLEAN, explicit_model : {<<>>, <<"tuned">>, <<"gemini-pro">>}]
    /\ pc = "start"
    /\ available = <<>>
    /\ ordered_to_try = <<>>
    /\ tried = 0
    /\ attempts = <<>>
    /\ calls = 0
    /\ returned = NoneStr

\* an exception raised at `site`: control goes to the handler's continuation
Raise(site, next) ==
    /\ pc' = IF HandlerOf[site] = "uncaught" THEN "raised"
             ELSE IF HandlerOf[site] = "outer" THEN "fallback"
             ELSE next

\* lines 19-27
AiStart ==
    /\ pc = "start"
    /\ IF ~env.key THEN pc' = "fallback"
       ELSE \E sdk \in {"ok", "import", "configure"} :
               IF sdk # "ok" THEN Raise(sdk, "fallback")
               ELSE pc' = IF env.explicit_model # <<>> THEN "explicit" ELSE "list"
    /\ UNCHANGED <<env, available, ordered_to_try, tried, attempts, calls, returned>>
    /\ UNCHANGED textVars
    /\ UNCHANGED geoVars
    /\ UNCHANGED dbVars

\* one generate_content call on `name` at `site`; `next`: where a failed
\* attempt continues
Attempt(name, site, next) ==
    \E outcome \in Outcomes :
        /\ attempts' = Append(attempts, [model |-> name, outcome |-> outcome])
        /\ calls' = calls + 1
        /\ IF outcome = "raises" THEN Raise(site, next) /\ UNCHANGED returned
           ELSE IF Usable(OutcomeText(name, outcome))
           THEN /\ returned' = Strip(OutcomeText(name, outcome))
                /\ pc' = AfterSuccess
           ELSE pc' = next /\ UNCHANGED returned

\* lines 28-38
AiTryExplicit ==
    /\ pc = "explicit"
    /\ Attempt(env.explicit_model, "explicit", "list")
    /\ UNCHANGED <<env, available, ordered_to_try, tried>>
    /\ UNCHANGED textVars
    /\ UNCHANGED geoVars
    /\ UNCHANGED dbVars

\* lines 41-75
AiListModels ==
    /\ pc = "list"
    /\ calls' = calls + 1
    /\ \/ \E l \in Listings :
             /\ available' = l
             /\ \/ /\ ordered_to_try' = OrderedToTry(candidate_names(l))
                   /\ pc' = "loop"
                \/ /\ l # <<>>
                   /\ Raise("filter", "fallback")
                   /\ UNCHANGED ordered_to_try
       \/ /\ Raise("list_models", "loop")
          /\ available' = <<>>
          /\ ordered_to_try' = OrderedToTry(candidate_names(<<>>))
    /\ UNCHANGED <<env, tried, attempts, returned>>
    /\ UNCHANGED textVars
    /\ UNCHANGED geoVars
    /\ UNCHANGED dbVars

\* lines 77-88: one iteration
AiTryNext ==
    /\ pc = "loop"
    /\ tried < Len(ordered_to_try)
    /\ tried' = tried + 1
    /\ Attempt(ordered_to_try[tried + 1], "loop", "loop")
    /\ UNCHANGED <<env, available, ordered_to_try>>
    /\ UNCHANGED textVars
    /\ UNCHANGED geoVars
    /\ UNCHANGED dbVars

\* line 77: the loop ends without a return
AiLoopEnds ==
    /\ pc = "loop"
    /\ tried = Len(ordered_to_try)
    /\ pc' = "fallback"
    /\ UNCHANGED <<env, available, ordered_to_try, tried, attempts, calls, returned>>
    /\ UNCHANGED textVars
    /\ UNCHANGED geoVars
    /\ UNCHANGED dbVars

\* lines 92-98
AiFallback ==
    /\ pc = "fallback"
    /\ returned' = FALLBACK
    /\ pc' = "done"
    /\ UNCHANGED <<env, available, ordered_to_try, tried, attempts, calls>>
    /\ UNCHANGED textVars
    /\ UNCHANGED geoVars
    /\ UNCHANGED dbVars

AiNext == AiStart \/ AiTryExplicit \/ AiListModels \/ AiTryNext \/ AiLoopEnds \/ AiFallback
SpecAI == AiInit /\ [][AiNext]_vars

\* C9: get_ai_explanation never raises to its caller and what it returns is
\* a non-empty string, whatever fails.
C9_NeverRaisesNonEmpty ==
    /\ pc # "raised"
    /\ pc = "done" => (returned # NoneStr /\ returned # <<>>)

\* C9 witness: the explicit model raised, list_models raised, and the
\* fallback string was returned.
C9_Witness ==
    /\ pc = "done"
    /\ returned = FALLBACK
    /\ Len(attempts) = 1
    /\ attempts[1].outcome = "raises"
    /\ calls = 2
    /\ available = <<>>

AttemptUsable(a) == a.outcome # "raises" /\ Usable(OutcomeText(a.model, a.outcome))
ExplicitPart == IF env.explicit_model # <<>> THEN <<env.explicit_model>> ELSE <<>>
AttemptedModels == [i \in 1..Len(attempts) |-> attempts[i].model]
IsPrefix(p, q) == Len(p) <= Len(q) /\ SubSeq(q, 1, Len(p)) = p

\* C10: the attempts follow the order [explicit model, then the ordered
\* candidates]; the first attempt that yields non-empty text ends them and
\* its text is returned; with no credential the fallback string is returned
\* without any provider call; when no attempt yields text the fallback
\* string is returned.
C10_FirstSuccessWins ==
    /\ IsPrefix(AttemptedModels, ExplicitPart \o ordered_to_try)
    /\ \A i \in 1..Len(attempts) :
          AttemptUsable(attempts[i]) =>
              /\ i = Len(attempts)
              /\ pc = "done"
              /\ returned = Strip(OutcomeText(attempts[i].model, attempts[i].outcome))
    /\ ~env.key => (calls = 0 /\ attempts = <<>>)
    /\ (pc = "done" /\ ~env.key) => returned = FALLBACK
    /\ (pc = "done" /\ \A i \in 1..Len(attempts) : ~AttemptUsable(attempts[i])) =>
          returned = FALLBACK

\* C10 witness: the explicit model and the first candidate failed, the
\* second candidate answered, and its text was returned.
C10_Witness ==
    /\ pc = "done"
    /\ Len(attempts) = 3
    /\ attempts[1].model = env.explicit_model
    /\ attempts[2].model = ordered_to_try[1]
    /\ ~AttemptUsable(attempts[1]) /\ ~AttemptUsable(attempts[2])
    /\ attempts[3].model = ordered_to_try[2]
    /\ returned = <<"reply of">> \o ordered_to_try[2]

\* the position in the preference list of the name a candidate matches;
\* one past the list for a candidate matching none
PreferenceRank(cand) ==
    LET hits == {k \in 1..Len(preferred_order) :
                    cand = <<preferred_order[k]>>
                    \/ (Len(cand) >= 2 /\ cand[Len(cand)] = preferred_order[k])}
    IN  IF hits = {} THEN Len(preferred_order) + 1 ELSE CHOOSE k \in hits : TRUE

\* the position at which list_models() gave the candidate
DiscoveryPosition(cand) == CHOOSE i \in 1..Len(available) : available[i].name = cand

TextCapable ==
    {available[i].name : i \in {k \in 1..Len(available) :
        available[k].methods \cap {"generateContent", "generate_text"} # {}}}

\* C22: the models tried after discovery are exactly the text-capable ones,
\* each once; those matching the preference list come first, in preference
\* order; the others follow in discovery order.
C22_PreferredFirstThenDiscoveryOrder ==
    pc = "loop" =>
        /\ {ordered_to_try[i] : i \in 1..Len(ordered_to_try)} = TextCapable
        /\ Len(ordered_to_try) = Cardinality(TextCapable)
        /\ \A i, j \in 1..Len(ordered_to_try) :
               i < j =>
                   \/ PreferenceRank(ordered_to_try[i]) < PreferenceRank(ordered_to_try[j])
                   \/ /\ PreferenceRank(ordered_to_try[i]) = PreferenceRank(ordered_to_try[j])
                      /\ DiscoveryPosition(ordered_to_try[i]) < DiscoveryPosition(ordered_to_try[j])

\* discovered: an embedding model, gemini-pro, then the flash model
C22_Witness ==
    /\ pc = "loop"
    /\ Len(available) = 3
    /\ available[1].name = <<"models", "embedding-001">>
    /\ available[2].name = <<"models", "gemini-pro">>
    /\ available[3].name = <<"gemini-1.5-flash-002">>
    /\ ordered_to_try = << <<"gemini-1.5-flash-002">>, <<"models", "gemini-pro">> >>

(***************************************************************************)
(* SpecGeo: one request to centers_nearby_api, from one provider request   *)
(* to the next; a provider request may raise (timeout, network error, bad  *)
(* body), answer with a status other than 200, or answer 200 with records  *)
(***************************************************************************)
MaxPlaces == 2

\* the records a provider may answer with, in the order it ranks them
PlaceUniverse ==
    << [address |-> Chars("Pune"), lat |-> Dec(185, 1), lng |-> Dec(73, 0)],
       [address |-> NoneStr, lat |-> Dec(0, 0), lng |-> Dec(80, 0)],
       [address |-> Chars("Goa"), lat |-> Dec(25, 0), lng |-> Dec(75, 0)],
       [address |-> Chars("NY, USA"), lat |-> Dec(40, 0), lng |-> Dec(0 - 74, 0)],
       [address |-> Chars("United States"), lat |-> Dec(185, 1), lng |-> Dec(73, 0)],
       [address |-> Chars("Rio"), lat |-> Dec(0 - 8, 0), lng |-> Dec(0 - 35, 0)],
       [address |-> Chars("Pune"), lat |-> Dec(185, 1), lng |-> NoFloat] >>

PlaceIndexes == [i \in 1..Len(PlaceUniverse) |-> i]

Listing(chosen) ==
    LET idx == SelectSeq(PlaceIndexes, LAMBDA i : i \in chosen)
    IN  [k \in 1..Len(idx) |-> PlaceUniverse[idx[k]]]

PlaceListings ==
    {Listing(chosen) : chosen \in {c \in SUBSET (1..Len(PlaceUniverse)) : Cardinality(c) <= MaxPlaces}}

ProviderOutcomes ==
    {[kind |-> "raises", places |-> <<>>], [kind |-> "non200", places |-> <<>>]}
        \cup {[kind |-> "ok", places |-> l] : l \in PlaceListings}

\* the text search of line 195 asks for one record
ResolveOutcomes == {o \in ProviderOutcomes : Len(o.places) <= 1}

GeoRequests ==
    {[q |-> q, country |-> c, lat |-> ll[1], lng |-> ll[2],
      sw_lat |-> b[1], sw_lng |-> b[2], ne_lat |-> b[3], ne_lng |-> b[4],
      GOOGLE_MAPS_API_KEY |-> k[1], GOOGLE_PLACES_API_KEY |-> k[2], YELP_API_KEY |-> k[3]] :
        q \in {NoneStr, Chars(" Pune ")},
        c \in {NoneStr, Chars(" IN"), Chars("us")},
        ll \in {<<NoneStr, NoneStr>>, <<Chars("18.5"), Chars("73")>>, <<Chars("x"), Chars("73")>>},
        b \in {<<NoneStr, NoneStr, NoneStr, NoneStr>>,
               <<Chars("0"), Chars("70"), Chars("20"), Chars("80")>>,
               <<Chars("0"), Chars("70"), Chars("20"), NoneStr>>},
        k \in {<<FALSE, FALSE, FALSE>>, <<TRUE, FALSE, FALSE>>, <<FALSE, TRUE, FALSE>>,
               <<FALSE, FALSE, TRUE>>, <<TRUE, FALSE, TRUE>>}}

GeoInit ==
    /\ TextIdle
    /\ AiIdle
    /\ DbIdle
    /\ request \in GeoRequests
    /\ gpc = "start"
    /\ lat = NoFloat
    /\ lng = NoFloat
    /\ sent = <<>>
    /\ results = <<>>
    /\ response = NoResult

Sent(api, step, o) ==
    sent' = Append(sent, [api |-> api, step |-> step, outcome |-> o.kind, places |-> o.places])

\* lines 361-362
GoogleFailed ==
    /\ response' = ResponseGoogleException
    /\ gpc' = "done"

\* lines 114-163, and 394-396 when no key is set
GeoStart ==
    /\ gpc = "start"
    /\ lat' = (IF CenterGiven(request) THEN FloatStr(request.lat) ELSE NoFloat)
    /\ lng' = (IF CenterGiven(request) THEN FloatStr(request.lng) ELSE NoFloat)
    /\ gpc' = FirstStep(request)
    /\ response' = (IF FirstStep(request) = "done" THEN ResponseNoProvider ELSE response)
    /\ UNCHANGED <<request, sent, results>>
    /\ UNCHANGED textVars
    /\ UNCHANGED aiVars
    /\ UNCHANGED dbVars

\* lines 172-205: the text query is resolved to coordinates
GeoResolve ==
    /\ gpc = "resolve"
    /\ \E o \in ResolveOutcomes :
         /\ Sent("searchText", "resolve", o)
         /\ IF o.kind = "raises"
            THEN GoogleFailed /\ UNCHANGED <<lat, lng>>
            ELSE IF o.kind = "ok" /\ o.places # <<>> /\ HasLocation(o.places[1])
                 THEN /\ lat' = o.places[1].lat
                      /\ lng' = o.places[1].lng
                      /\ gpc' = "nearby"
                      /\ UNCHANGED response
                 ELSE /\ response' = ResponseUnresolved(request)
                      /\ gpc' = "done"
                      /\ UNCHANGED <<lat, lng>>
    /\ UNCHANGED <<request, results>>
    /\ UNCHANGED textVars
    /\ UNCHANGED aiVars
    /\ UNCHANGED dbVars

\* lines 208-222, 274-309 and 360: the nearby search
GeoNearby ==
    /\ gpc = "nearby"
    /\ \E o \in ProviderOutcomes :
         /\ Sent("searchNearby", "nearby", o)
         /\ IF o.kind = "raises"
            THEN GoogleFailed /\ UNCHANGED results
            ELSE IF o.kind = "non200"
                 THEN gpc' = "error_text" /\ UNCHANGED <<results, response>>
                 ELSE /\ results' = NearbyResults(request, o.places)
                      /\ gpc' = AfterNearby(results')
                      /\ response' = (IF AfterNearby(results') = "done"
                                      THEN ResponseOk(results') ELSE response)
    /\ UNCHANGED <<request, lat, lng>>
    /\ UNCHANGED textVars
    /\ UNCHANGED aiVars
    /\ UNCHANGED dbVars

\* lines 223-272: the text search made when the nearby search answered an error
GeoErrorText ==
    /\ gpc = "error_text"
    /\ \E o \in ProviderOutcomes :
         /\ Sent("searchText", "error_text", o)
         /\ IF o.kind = "raises"
            THEN GoogleFailed /\ UNCHANGED results
            ELSE IF o.kind = "non200"
                 THEN response' = ResponseBothFailed /\ gpc' = "done" /\ UNCHANGED results
                 ELSE /\ results' = ErrorTextResults(request, o.places)
                      /\ response' = ResponseOk(results')
                      /\ gpc' = "done"
    /\ UNCHANGED <<request, lat, lng>>
    /\ UNCHANGED textVars
    /\ UNCHANGED aiVars
    /\ UNCHANGED dbVars

\* lines 309-360: the text search made when the nearby search kept nothing
GeoBroadText ==
    /\ gpc = "broad_text"
    /\ \E o \in ProviderOutcomes :
         /\ Sent("searchText", "broad_text", o)
         /\ IF o.kind = "raises"
            THEN GoogleFailed /\ UNCHANGED results
            ELSE IF o.kind = "non200"
                 THEN response' = ResponseTextFailed /\ gpc' = "done" /\ UNCHANGED results
                 ELSE /\ results' = results \o BroadTextResults(request, o.places)
                      /\ response' = ResponseOk(results')
                      /\ gpc' = "done"
    /\ UNCHANGED <<request, lat, lng>>
    /\ UNCHANGED textVars
    /\ UNCHANGED aiVars
    /\ UNCHANGED dbVars

\* lines 364-392: raise_for_status turns a status other than 200 into an exception
GeoYelp ==
    /\ gpc = "yelp"
    /\ \E o \in ProviderOutcomes :
         /\ Sent("yelp", "yelp", o)
         /\ IF o.kind # "ok"
            THEN response' = ResponseYelpException /\ UNCHANGED results
            ELSE /\ results' = YelpResults(o.places)
                 /\ response' = ResponseOk(results')
    /\ gpc' = "done"
    /\ UNCHANGED <<request, lat, lng>>
    /\ UNCHANGED textVars
    /\ UNCHANGED aiVars
    /\ UNCHANGED dbVars

GeoNext == GeoStart \/ GeoResolve \/ GeoNearby \/ GeoErrorText \/ GeoBroadText \/ GeoYelp
SpecGeo == GeoInit /\ [][GeoNext]_vars

GeoDone == gpc = "done"

NoKeys == ~gmaps_key(request) /\ ~yelp_key(request)

\* C11: with neither credential configured no provider request is made, and
\* the response carries the 'no provider configured' error together with an
\* empty result sequence.
C11_NoProviderErrorAndEmptyCenters ==
    (GeoDone /\ NoKeys) =>
        /\ sent = <<>>
        /\ response.error = "No external provider configured"
        /\ "centers" \in response.members
        /\ response.centers = <<>>

BoundsGiven == NoFloat \notin {ParsedBounds(request)[k] : k \in DOMAIN ParsedBounds(request)}

InBox(lat_v, lng_v) ==
    /\ DLeq(ParsedBounds(request).sw_lat, lat_v) /\ DLeq(lat_v, ParsedBounds(request).ne_lat)
    /\ DLeq(ParsedBounds(request).sw_lng, lng_v) /\ DLeq(lng_v, ParsedBounds(request).ne_lng)

\* the provider's answer the results were taken from
LastAnswer == sent[Len(sent)]

Returned(p) ==
    \E i \in 1..Len(response.centers) :
        /\ response.centers[i].address = AddressOf(p)
        /\ response.centers[i].latitude = p.lat
        /\ response.centers[i].longitude = p.lng

OnBoundary(p) ==
    /\ HasLocation(p)
    /\ InBox(p.lat, p.lng)
    /\ \/ p.lat \in {ParsedBounds(request).sw_lat, ParsedBounds(request).ne_lat}
       \/ p.lng \in {ParsedBounds(request).sw_lng, ParsedBounds(request).ne_lng}

\* C12: with coordinates and all four bounds given, every result returned, on
\* whichever provider path, lies inside the box (bounds inclusive), and a
\* record on the boundary that no country rule excludes is returned.
C12_ResultsWithinBounds ==
    (GeoDone /\ CenterGiven(request) /\ BoundsGiven /\ response.status = 200) =>
        /\ \A i \in 1..Len(response.centers) :
               InBox(response.centers[i].latitude, response.centers[i].longitude)
        /\ \A k \in 1..Len(LastAnswer.places) :
               (OnBoundary(LastAnswer.places[k]) /\ ~exclude_us(request))
                   => Returned(LastAnswer.places[k])

ResolutionAttempted == sent # <<>> /\ sent[1].step = "resolve"

ResolutionFailed ==
    /\ ResolutionAttempted
    /\ \/ sent[1].outcome # "ok"
       \/ sent[1].places = <<>>
       \/ ~HasLocation(sent[1].places[1])

\* C13: when the text query cannot be resolved to coordinates (no record, a
\* record without location, a status other than 200, a timeout or network
\* error) the request ends with the 400 'could not resolve' response carrying
\* the attempted query, and no nearby search is made.
C13_UnresolvedIsReported ==
    (GeoDone /\ ResolutionFailed) =>
        /\ response = ResponseUnresolved(request)
        /\ response.status = 400
        /\ response.query = text_query(request)
        /\ Len(sent) = 1

\* C14: whenever the nearby search fails at provider level (status other
\* than 200, timeout, network error), the broader text search is made before
\* the request ends.
C14_TextSearchAfterNearbyFailure ==
    GeoDone =>
        \A i \in 1..Len(sent) :
            (sent[i].step = "nearby" /\ sent[i].outcome # "ok") =>
                \E j \in (i + 1)..Len(sent) : sent[j].api = "searchText"

\* C15: with a country hint other than 'us', no result of the primary
\* provider names the United States in its address or has a longitude
\* below -30, whichever search produced it.
C15_NoUnitedStatesResults ==
    (GeoDone /\ gmaps_key(request) /\ exclude_us(request)) =>
        \A i \in 1..Len(response.centers) :
            /\ ~NamesUnitedStates(response.centers[i].address)
            /\ ~DLess(response.centers[i].longitude, Dec(0 - 30, 0))

YelpRequests == {i \in 1..Len(sent) : sent[i].api = "yelp"}

\* C16: the secondary provider is asked exactly when no primary key is set
\* and a secondary key is; then it is asked once and nothing else is asked
\* (no text resolution); a request that asked the primary provider never
\* asks the secondary one, whatever the primary answered.
C16_SecondaryOnlyWithoutPrimary ==
    /\ YelpRequests # {} => (~gmaps_key(request) /\ yelp_key(request))
    /\ YelpRequests # {} => sent = <<sent[1]>>
    /\ (GeoDone /\ ~gmaps_key(request) /\ yelp_key(request)) => YelpRequests = {1}
    /\ (GeoDone /\ gmaps_key(request)) =>
           (sent # <<>> /\ \A i \in 1..Len(sent) : sent[i].api \in {"searchText", "searchNearby"})

\* only the secondary key is set and a text query is given without
\* coordinates: one request, to the secondary provider, whose records are
\* returned
C16_Witness ==
    /\ GeoDone
    /\ ~gmaps_key(request) /\ yelp_key(request)
    /\ StrippedParam(request.q) # <<>> /\ ~CenterGiven(request)
    /\ Len(sent) = 1
    /\ sent[1].api = "yelp"
    /\ sent[1].outcome = "ok"
    /\ response.status = 200
    /\ Len(response.centers) = 2

\* no filter of the spec applies to p: the country rules and the bounds
PassesFilters(p) ==
    /\ ~(exclude_us(request) /\ NamesUnitedStates(AddressOf(p)))
    /\ ~(exclude_us(request) /\ DLess(p.lng, Dec(0 - 30, 0)))
    /\ BoundsGiven => InBox(p.lat, p.lng)

\* C17: on every provider path, a record with both coordinates that passes
\* the country and bounds filters is returned, whatever the coordinate
\* values (0.0 included), and a record lacking a coordinate never is.
C17_KeptIffBothCoordinates ==
    (GeoDone /\ response.status = 200) =>
        \A k \in 1..Len(LastAnswer.places) :
            LET p == LastAnswer.places[k]
            IN  /\ (HasLocation(p) /\ PassesFilters(p)) => Returned(p)
                /\ ~HasLocation(p) => ~Returned(p)

NearbyRequests == {i \in 1..Len(sent) : sent[i].step = "nearby"}
BroadTextRequests == {i \in 1..Len(sent) : sent[i].step = "broad_text"}
NearbyContributed == {i \in 1..Len(results) : results[i].source = "google_places_new_nearby"}

\* what the text search adds under bounds b (all four given or not) and
\* with or without the exclusion of the United States: its records with a
\* location that pass these filters, in the provider's order
TextSearchAdds(places, b, excluding) ==
    LET bounded == NoFloat \notin {b.sw_lat, b.sw_lng, b.ne_lat, b.ne_lng}
        passes(p) ==
            /\ HasLocation(p)
            /\ ~(excluding /\ NamesUnitedStates(AddressOf(p)))
            /\ ~(excluding /\ DLess(p.lng, Dec(0 - 30, 0)))
            /\ bounded => /\ DLeq(b.sw_lat, p.lat) /\ DLeq(p.lat, b.ne_lat)
                          /\ DLeq(b.sw_lng, p.lng) /\ DLeq(p.lng, b.ne_lng)
        kept == SelectSeq(places, passes)
    IN  [i \in 1..Len(kept) |->
            [address |-> AddressOf(kept[i]), latitude |-> kept[i].lat,
             longitude |-> kept[i].lng, source |-> "google_places_new_text"]]

\* C23: after a nearby search answered with 200, the broader text search is
\* made exactly when the nearby search put nothing in the result list, and
\* what the text search yields is then returned with the list.
C23_TextSearchIffNearbyEmpty ==
    (GeoDone /\ \E i \in NearbyRequests : sent[i].outcome = "ok") =>
        /\ BroadTextRequests # {} <=> NearbyContributed = {}
        /\ BroadTextRequests = {} => (response.status = 200 /\ response.centers = results)
        /\ \A j \in BroadTextRequests :
               /\ j = Len(sent)
               /\ sent[j - 1].step = "nearby"
               /\ sent[j].outcome = "ok" =>
                      /\ response.status = 200
                      /\ \A b \in {ParsedBounds(request)} :
                             response.centers =
                                 TextSearchAdds(sent[j].places, b, exclude_us(request))

\* the nearby search answers one record without longitude; the text search
\* then answers two records, both returned
C23_Witness ==
    /\ GeoDone
    /\ Len(sent) = 2
    /\ sent[1].step = "nearby" /\ sent[1].outcome = "ok" /\ Len(sent[1].places) = 1
    /\ sent[2].step = "broad_text" /\ sent[2].outcome = "ok"
    /\ Len(response.centers) = 2
    /\ response.centers[1].source = "google_places_new_text"


\* C28: a proximity or keyword search is sent to a provider only when the
\* request has coordinates, either given as lat/lng or resolved from the text
\* query; without them no search other than the resolving one is sent.
C28_NoSearchWithoutCoordinates ==
    \A i \in 1..Len(sent) :
        sent[i].step # "resolve" => (lat # NoFloat /\ lng # NoFloat)


(***************************************************************************)
(* Green challenges, login and logout.  One visitor with one session and   *)
(* one user account sends requests; two of them can be handled at the same *)
(* time, a step of a handler being one query or one session access.        *)
(***************************************************************************)
MaxRequests == 3
Slots == {1, 2}
USER == "u"

\* the Challenge rows of the database; the views never change them
ChallengeRows ==
    <<[id |-> 1, co2_saved |-> Dec(1, 0), is_active |-> TRUE],
      [id |-> 2, co2_saved |-> Dec(25, 1), is_active |-> TRUE],
      [id |-> 3, co2_saved |-> Dec(5, 1), is_active |-> FALSE]>>

RECURSIVE IntStr(_)
IntStr(n) == IF n < 10 THEN <<DigitChar(n)>> ELSE IntStr(n \div 10) \o <<DigitChar(n % 10)>>

\* f"ch{c.id}"
StableId(db_id) == Chars("ch") \o IntStr(db_id)

\* lines 922-933: the active challenges in template-friendly format
challenges ==
    LET db_challenges == SelectSeq(ChallengeRows, LAMBDA c : c.is_active)
    IN  [i \in 1..Len(db_challenges) |->
            [id |-> StableId(db_challenges[i].id), db_id |-> db_challenges[i].id,
             co2_saved |-> db_challenges[i].co2_saved]]

\* str.replace('ch', '')
RECURSIVE ReplaceCh(_)
ReplaceCh(s) ==
    IF Len(s) < 2 THEN s
    ELSE IF s[1] = "c" /\ s[2] = "h" THEN ReplaceCh(SubSeq(s, 3, Len(s)))
    ELSE <<s[1]>> \o ReplaceCh(Tail(s))

\* int(s) succeeds on optional whitespace, an optional sign and digits;
\* otherwise it raises ValueError
IntBody(s) ==
    LET t == Strip(s) IN IF t # <<>> /\ t[1] \in {"+", "-"} THEN Tail(t) ELSE t
IntOk(s) == IntBody(s) # <<>> /\ \A i \in 1..Len(IntBody(s)) : IntBody(s)[i] \in Digits
IntOf(s) ==
    IF Strip(s)[1] = "-" THEN 0 - DigitsToInt(IntBody(s), 0) ELSE DigitsToInt(IntBody(s), 0)

\* lines 950 and 1039: int(challenge_id.replace('ch', ''))
ParsableId(cid) == IntOk(ReplaceCh(cid))
DbId(cid) == IntOf(ReplaceCh(cid))

\* lines 938-940: the stable ids of the user's ChallengeCompletion rows
StoredIds(rows) == {StableId(rows[i].challenge_id) : i \in 1..Len(rows)}

HasCompletion(rows, db_id) == \E i \in 1..Len(rows) : rows[i].challenge_id = db_id

\* the INSERT of get_or_create without the unique_together constraint
InsertCompletionNoUnique(rows, db_id) ==
    IF db_id \notin {ChallengeRows[i].id : i \in 1..Len(ChallengeRows)}
    THEN [rows |-> rows, created |-> FALSE, raised |-> TRUE]
    ELSE [rows |-> Append(rows, [user |-> USER, challenge_id |-> db_id]),
          created |-> TRUE, raised |-> FALSE]

\* the INSERT of get_or_create: the foreign key to Challenge makes it raise
\* IntegrityError when no Challenge has the id, and get_or_create raises it
\* again; unique_together makes it raise when the row exists, and
\* get_or_create then returns the existing row
InsertCompletion(rows, db_id) ==
    IF db_id \notin {ChallengeRows[i].id : i \in 1..Len(ChallengeRows)}
    THEN [rows |-> rows, created |-> FALSE, raised |-> TRUE]
    ELSE IF HasCompletion(rows, db_id)
    THEN [rows |-> rows, created |-> FALSE, raised |-> FALSE]
    ELSE [rows |-> Append(rows, [user |-> USER, challenge_id |-> db_id]),
          created |-> TRUE, raised |-> FALSE]

\* list(a_set): the elements in some order
Orderings(S) ==
    {f \in [1..Cardinality(S) -> S] : \A i, j \in 1..Cardinality(S) : f[i] = f[j] => i = j}

RECURSIVE SumCo2(_)
SumCo2(cs) == IF cs = <<>> THEN Dec(0, 0) ELSE DAdd(Head(cs).co2_saved, SumCo2(Tail(cs)))

\* lines 973-981
BadgeName(completed_count) ==
    IF completed_count >= 5 THEN "Eco Hero"
    ELSE IF completed_count >= 3 THEN "Green Influencer"
    ELSE IF completed_count >= 1 THEN "Eco Starter"
    ELSE NONE

\* lines 961-993: the context rendered.  The progress is
\* int(completed_count / total * 100), exact for the totals used here, and
\* round(total_co2, 1) leaves a sum of the co2_saved of ChallengeRows as it is.
ChallengesContext(user_completed_ids) ==
    [status |-> 200,
     user_completed_ids |-> user_completed_ids,
     total_co2 |-> SumCo2(SelectSeq(challenges, LAMBDA c : c.id \in user_completed_ids)),
     completed_count |-> Cardinality(user_completed_ids),
     progress |-> IF Len(challenges) > 0
                  THEN (Cardinality(user_completed_ids) * 100) \div Len(challenges)
                  ELSE 0,
     badge_name |-> BadgeName(Cardinality(user_completed_ids))]

ServerError == [status |-> 500]

\* lines 1034-1050: the session completions are merged in list order; an
\* unparsable id is skipped, an exception of get_or_create ends the merge
RECURSIVE MergeSession(_, _)
MergeSession(rows, session_completed) ==
    IF session_completed = <<>> THEN [rows |-> rows, raised |-> FALSE]
    ELSE IF ~ParsableId(Head(session_completed))
    THEN MergeSession(rows, Tail(session_completed))
    ELSE LET r == InsertCompletion(rows, DbId(Head(session_completed)))
         IN  IF r.raised THEN [rows |-> rows, raised |-> TRUE]
             ELSE MergeSession(r.rows, Tail(session_completed))

IdleHandler ==
    [view |-> NONE, pc |-> "idle", method |-> "GET", challenge_id |-> <<>>,
     authenticated |-> FALSE, stored_ids |-> {}, user_completed_ids |-> {},
     created |-> FALSE, response |-> NoResult]

\* request.POST.get('challenge_id', '') as submitted
SubmittedIds ==
    {Chars("ch1"), Chars(" ch2 "), Chars("ch3"), Chars("ch9"), Chars("chx"), Chars("1"),
     <<>>}

SessionCompleted == IF session.has THEN session.challenges_completed ELSE <<>>

\* lines 917-944: a request arrives; the challenges and the completed set
\* are read
ChallengesBegin(s) ==
    /\ handlers[s].pc \in {"idle", "done"}
    /\ started < MaxRequests
    /\ started' = started + 1
    /\ \E method \in {"GET", "POST"} :
       \E param \in (IF method = "POST" THEN SubmittedIds ELSE {<<>>}) :
       \E ids \in {IF logged_in THEN StoredIds(completions) ELSE Range(SessionCompleted)} :
         handlers' = [handlers EXCEPT ![s] =
                        [view |-> "green_challenges",
                         pc |-> IF method = "POST" THEN "post" ELSE "render",
                         method |-> method, challenge_id |-> Strip(param),
                         authenticated |-> logged_in, stored_ids |-> ids,
                         user_completed_ids |-> ids, created |-> FALSE,
                         response |-> NoResult]]
    /\ UNCHANGED <<completions, credit_rows, session, logged_in>>
    /\ UNCHANGED textVars
    /\ UNCHANGED aiVars
    /\ UNCHANGED geoVars

\* lines 945-960 without the queries of get_or_create
ChallengesPost(s) ==
    /\ handlers[s].pc = "post"
    /\ LET h == handlers[s]
           added == [h EXCEPT !.pc = "render",
                              !.user_completed_ids = @ \cup {h.challenge_id}]
       IN  IF h.challenge_id = <<>> \/ h.challenge_id \in h.user_completed_ids
           THEN /\ handlers' = [handlers EXCEPT ![s].pc = "render"]
                /\ UNCHANGED session
           ELSE IF h.authenticated
           THEN /\ handlers' = [handlers EXCEPT ![s] =
                                  IF ParsableId(h.challenge_id)
                                  THEN [h EXCEPT !.pc = "get"] ELSE added]
                /\ UNCHANGED session
           ELSE /\ handlers' = [handlers EXCEPT ![s] = added]
                /\ \E tmp \in Orderings(h.user_completed_ids) :
                     session' = [has |-> TRUE,
                                 challenges_completed |-> Append(tmp, h.challenge_id)]
    /\ UNCHANGED <<completions, credit_rows, logged_in, started>>
    /\ UNCHANGED textVars
    /\ UNCHANGED aiVars
    /\ UNCHANGED geoVars

\* line 951, get_or_create: the SELECT
ChallengesGet(s) ==
    /\ handlers[s].pc = "get"
    /\ handlers' = [handlers EXCEPT ![s] =
                      IF HasCompletion(completions, DbId(@.challenge_id))
                      THEN [@ EXCEPT !.pc = "render",
                                     !.user_completed_ids = @ \cup {handlers[s].challenge_id}]
                      ELSE [@ EXCEPT !.pc = "create"]]
    /\ UNCHANGED <<completions, credit_rows, session, logged_in, started>>
    /\ UNCHANGED textVars
    /\ UNCHANGED aiVars
    /\ UNCHANGED geoVars

\* line 951, get_or_create: the INSERT; lines 952-953 catch ValueError only
ChallengesCreate(s) ==
    /\ handlers[s].pc = "create"
    /\ \E r \in {InsertCompletion(completions, DbId(handlers[s].challenge_id))} :
         /\ completions' = r.rows
         /\ handlers' = [handlers EXCEPT ![s] =
                           IF r.raised
                           THEN [@ EXCEPT !.pc = "done", !.response = ServerError]
                           ELSE [@ EXCEPT !.pc = "render", !.created = r.created,
                                          !.user_completed_ids =
                                              @ \cup {handlers[s].challenge_id}]]
    /\ UNCHANGED <<credit_rows, session, logged_in, started>>
    /\ UNCHANGED textVars
    /\ UNCHANGED aiVars
    /\ UNCHANGED geoVars

\* lines 961-984
ChallengesRender(s) ==
    /\ handlers[s].pc = "render"
    /\ handlers' = [handlers EXCEPT ![s] =
                      [@ EXCEPT !.pc = "done",
                                !.response =
                                    ChallengesContext(handlers[s].user_completed_ids)]]
    /\ UNCHANGED <<completions, credit_rows, session, logged_in, started>>
    /\ UNCHANGED textVars
    /\ UNCHANGED aiVars
    /\ UNCHANGED geoVars

\* login_view, lines 1022-1056, with valid credentials
Login ==
    /\ ~logged_in
    /\ started < MaxRequests
    /\ started' = started + 1
    /\ logged_in' = TRUE
    /\ IF SessionCompleted = <<>>
       THEN UNCHANGED <<completions, session>>
       ELSE \E r \in {MergeSession(completions, SessionCompleted)} :
              /\ completions' = r.rows
              /\ session' = (IF r.raised THEN session ELSE NoSession)
    /\ UNCHANGED <<credit_rows, handlers>>
    /\ UNCHANGED textVars
    /\ UNCHANGED aiVars
    /\ UNCHANGED geoVars

\* logout_view, lines 1065-1070: logout() flushes the session
Logout ==
    /\ logged_in \/ session.has
    /\ started < MaxRequests
    /\ started' = started + 1
    /\ logged_in' = FALSE
    /\ session' = NoSession
    /\ UNCHANGED <<completions, credit_rows, handlers>>
    /\ UNCHANGED textVars
    /\ UNCHANGED aiVars
    /\ UNCHANGED geoVars

ChallengesInit ==
    /\ TextIdle /\ AiIdle /\ GeoIdle
    /\ completions = <<>>
    /\ credit_rows = <<>>
    /\ session = NoSession
    /\ logged_in = FALSE
    /\ handlers = [s \in Slots |-> IdleHandler]
    /\ started = 0

ChallengesNext ==
    \/ \E s \in Slots : ChallengesBegin(s)
    \/ \E s \in Slots : ChallengesPost(s)
    \/ \E s \in Slots : ChallengesGet(s)
    \/ \E s \in Slots : ChallengesCreate(s)
    \/ \E s \in Slots : ChallengesRender(s)
    \/ Login
    \/ Logout

SpecChallenges == ChallengesInit /\ [][ChallengesNext]_vars


CompletedDbIds(rows) == {rows[i].challenge_id : i \in 1..Len(rows)}
NoDuplicateCompletion(rows) ==
    \A i, j \in 1..Len(rows) : rows[i].challenge_id = rows[j].challenge_id => i = j
ParsableDbIds(ids) == {DbId(cid) : cid \in {c \in Range(ids) : ParsableId(c)}}

\* C26: a login by a visitor whose session holds challenge completions
\* leaves as the user's stored completions the union of the ones stored
\* before and the session completions with a parsable id, none duplicated,
\* and leaves the session without a challenges_completed entry.
C26_LoginMergesSessionCompletions ==
    [][(~logged_in /\ logged_in' /\ SessionCompleted # <<>>) =>
         /\ CompletedDbIds(completions') =
                CompletedDbIds(completions) \cup ParsableDbIds(SessionCompleted)
         /\ NoDuplicateCompletion(completions')
         /\ ~session'.has]_vars


\* a POST whose challenge_id was in the completed set read at lines 936-942
RepeatedPost(h) ==
    /\ h.view = "green_challenges"
    /\ h.method = "POST"
    /\ h.pc \in {"render", "done"}
    /\ h.challenge_id \in h.stored_ids

ActiveIds == {challenges[i].id : i \in 1..Len(challenges)}

\* C29: whatever challenge_id values were submitted, a rendered completed
\* set holds only ids of active challenges and the progress is within 0..100.
C29_CompletedSetOfActiveChallenges ==
    \A s \in Slots :
        (handlers[s].pc = "done" /\ handlers[s].response # ServerError) =>
            /\ handlers[s].response.user_completed_ids \subseteq ActiveIds
            /\ handlers[s].response.progress \in 0..100


(***************************************************************************)
(* Credits.  Each handler serves one request; the requests of the user and *)
(* of anonymous visitors are handled at the same time, a step of a handler *)
(* being one query.                                                        *)
(***************************************************************************)
MaxCreditRequests == 2
CreditSlots == 1..MaxCreditRequests

\* the Device rows of the database: model_name and metal_value
DeviceRows ==
    <<[model_name |-> Chars("Phone"), metal_value |-> Dec(5, 1)],
      [model_name |-> Chars("Laptop"), metal_value |-> Dec(12, 1)]>>

\* request.POST.get('device_model', '') as submitted
SubmittedModels == {Chars(" phone "), Chars("LAPTOP"), Chars("radio"), <<>>}

\* line 65: Device.objects.filter(model_name__iexact=model_name).first()
DeviceFound(model_name) ==
    SelectSeq(DeviceRows, LAMBDA d : Lower(d.model_name) = Lower(model_name))

\* round(x) of a float to an integer, ties to even
DRound0(a) ==
    IF a.e <= 0 THEN a.m * Pow10(0 - a.e)
    ELSE LET scale == Pow10(a.e)
             q == a.m \div scale
             r == a.m % scale
         IN  IF 2 * r > scale \/ (2 * r = scale /\ q % 2 = 1) THEN q + 1 ELSE q

\* line 69
PointsAwarded(device) == DRound0(DMul(device.metal_value, Dec(10, 0)))

IdleCreditHandler ==
    [view |-> NONE, pc |-> "idle", method |-> "GET", authenticated |-> FALSE,
     points_awarded |-> 0, after |-> "render", credit |-> 0, saved |-> FALSE,
     balance |-> NONE, response |-> NoResult]

\* lines 57-71 and 85-94: the request is read; an authenticated POST of a
\* known device goes on to award points, an anonymous one persists nothing
CreditsBegin(s) ==
    /\ handlers[s].pc = "idle"
    /\ \E method \in {"GET", "POST"}, authenticated \in BOOLEAN :
       \E param \in (IF method = "POST" THEN SubmittedModels ELSE {<<>>}) :
       \E found \in {DeviceFound(Strip(param))} :
         handlers' = [handlers EXCEPT ![s] =
                        [view |-> "credits",
                         pc |-> IF authenticated THEN "get" ELSE "render",
                         method |-> method, authenticated |-> authenticated,
                         points_awarded |->
                             IF method = "POST" /\ Strip(param) # <<>> /\ found # <<>>
                             THEN PointsAwarded(found[1]) ELSE 0,
                         after |-> IF method = "POST" /\ Strip(param) # <<>> /\ found # <<>>
                                   THEN "update" ELSE "render",
                         credit |-> 0, saved |-> FALSE, balance |-> NONE,
                         response |-> NoResult]]
    /\ UNCHANGED <<completions, credit_rows, session, logged_in, started>>
    /\ UNCHANGED textVars
    /\ UNCHANGED aiVars
    /\ UNCHANGED geoVars

\* line 53, get_or_create: the SELECT.  get() raises MultipleObjectsReturned
\* when several rows match, which nothing catches.
CreditsGet(s) ==
    /\ handlers[s].pc = "get"
    /\ handlers' = [handlers EXCEPT ![s] =
                      IF Len(credit_rows) = 0 THEN [@ EXCEPT !.pc = "create"]
                      ELSE IF Len(credit_rows) = 1
                      THEN [@ EXCEPT !.pc = handlers[s].after, !.credit = 1,
                                     !.balance = credit_rows[1].points]
                      ELSE [@ EXCEPT !.pc = "done", !.response = ServerError]]
    /\ UNCHANGED <<completions, credit_rows, session, logged_in, started>>
    /\ UNCHANGED textVars
    /\ UNCHANGED aiVars
    /\ UNCHANGED geoVars

\* line 53, get_or_create: the INSERT; no constraint of UserCredit makes it
\* fail when the user has a row
CreditsCreate(s) ==
    /\ handlers[s].pc = "create"
    /\ credit_rows' = Append(credit_rows, [user |-> USER, points |-> 0])
    /\ handlers' = [handlers EXCEPT ![s] =
                      [@ EXCEPT !.pc = handlers[s].after, !.credit = Len(credit_rows) + 1,
                                !.balance = 0]]
    /\ UNCHANGED <<completions, session, logged_in, started>>
    /\ UNCHANGED textVars
    /\ UNCHANGED aiVars
    /\ UNCHANGED geoVars

\* lines 73-76: the UPDATE with F('points') + points_awarded is one
\* statement of the database; the row is read back
CreditsUpdate(s) ==
    /\ handlers[s].pc = "update"
    /\ credit_rows' = [credit_rows EXCEPT ![handlers[s].credit].points =
                          @ + handlers[s].points_awarded]
    /\ handlers' = [handlers EXCEPT ![s] =
                      [@ EXCEPT !.pc = "get", !.after = "render", !.saved = TRUE,
                                !.balance = credit_rows'[handlers[s].credit].points]]
    /\ UNCHANGED <<completions, session, logged_in, started>>
    /\ UNCHANGED textVars
    /\ UNCHANGED aiVars
    /\ UNCHANGED geoVars

\* lines 94-98: the balance rendered is the points of the row as read by the
\* last query of the handler, None for an anonymous visitor
CreditsRender(s) ==
    /\ handlers[s].pc = "render"
    /\ handlers' = [handlers EXCEPT ![s] =
                      [@ EXCEPT !.pc = "done",
                                !.response = [status |-> 200,
                                              balance |-> handlers[s].balance,
                                              saved |-> handlers[s].saved]]]
    /\ UNCHANGED <<completions, credit_rows, session, logged_in, started>>
    /\ UNCHANGED textVars
    /\ UNCHANGED aiVars
    /\ UNCHANGED geoVars

CreditsInit ==
    /\ TextIdle /\ AiIdle /\ GeoIdle
    /\ completions = <<>>
    /\ credit_rows = <<>>
    /\ session = NoSession
    /\ logged_in = FALSE
    /\ handlers = [s \in CreditSlots |-> IdleCreditHandler]
    /\ started = 0

CreditsNext ==
    \/ \E s \in CreditSlots : CreditsBegin(s)
    \/ \E s \in CreditSlots : CreditsGet(s)
    \/ \E s \in CreditSlots : CreditsCreate(s)
    \/ \E s \in CreditSlots : CreditsUpdate(s)
    \/ \E s \in CreditSlots : CreditsRender(s)

SpecCredits == CreditsInit /\ [][CreditsNext]_vars

RECURSIVE SumAwarded(_)
SumAwarded(S) ==
    IF S = {} THEN 0
    ELSE LET s == CHOOSE x \in S : TRUE
         IN  handlers[s].points_awarded + SumAwarded(S \ {s})

Saved == {s \in CreditSlots : handlers[s].saved}
CreditsQuiet == \A s \in CreditSlots : handlers[s].pc \in {"idle", "done"}

\* C30: once the concurrent credits requests have been handled, the user who
\* was awarded points has exactly one UserCredit row, holding the sum of the
\* points awarded by those requests; requests of anonymous visitors store
\* nothing.
C30_OneRowWithSumOfAwards ==
    CreditsQuiet =>
        /\ Saved # {} =>
             /\ Len(credit_rows) = 1
             /\ credit_rows[1].points = SumAwarded(Saved)
        /\ (\A s \in CreditSlots : ~handlers[s].authenticated) => credit_rows = <<>>

====
